---- MODULE Spec2Model ----
(***************************************************************************)
(* A model of goplay (src/goplay.go): the staleness decision, the hashbang *)
(* comment-out / restore around a build, the build steps of CompileBinary, *)
(* the start of the binary and the hot-reload supervisor of                *)
(* RunWatchAndExit with its listener goroutine.                            *)
(*                                                                         *)
(* Strings whose bytes matter (the script's content, command-line tokens)  *)
(* are sequences of one-character strings.  Time is a logical clock: a     *)
(* write stamps the file with the clock, which may or may not have         *)
(* advanced since the previous write (timestamp granularity).              *)
(***************************************************************************)
EXTENDS Integers, Sequences, FiniteSets, TLC

VARIABLES
    cmdline,        \* os.Args[1:] of every invocation
    rcs,            \* the three configuration files: /etc/goplayrc, ~/.goplayrc, <dir>/.goplayrc
    script,         \* bytes of the script file
    orig,           \* the script's bytes but for goplay's own writes (history)
    user,           \* the user's save in progress: the file and the bytes read
    scriptMtime,    \* modification time of the script
    binExists,      \* Exist(binaryPath)
    binMtime,       \* modification time of the binary
    objExists,      \* the intermediate object file _go_.<arch> exists
    clock,          \* the filesystem clock
    cwd,            \* process working directory: "start" or "scriptdir"
    run,            \* which invocation of goplay this is
    pc,             \* position of the main goroutine
    config,         \* the package-level Config value
    args,           \* flag.Args()
    binary,         \* main's binaryDir and binaryPath
    compileNeeded,  \* main's local
    seen,           \* what the staleness check read (history)
    cb,             \* locals of the running CompileBinary call
    restart,        \* RunWatchAndExit's shared flag
    lpc,            \* position of the listener goroutine
    events,         \* notifications queued on watcher.Event
    watcher,        \* the fsnotify watcher: open, the paths watched, errors pending
    child,          \* the process last started, and the one cmd refers to (nil: 0)
    waitErr,        \* result of the last cmd.Wait()
    exitStatus,     \* exit status of goplay, -1 while it runs
    exitVia,        \* how goplay terminated (history)
    hist            \* per-run history: builds, child starts, user changes

vars == <<cmdline, rcs, script, orig, user, scriptMtime, binExists, binMtime, objExists,
          clock, cwd, run, pc, config, args, binary, compileNeeded, seen, cb, restart,
          lpc, events, watcher, child, waitErr, exitStatus, exitVia, hist>>

-----------------------------------------------------------------------------
\* Bounds of the model

MaxRuns == 2
MaxChanges == 2
MaxQueue == 2
MaxClock == 4
MaxStarts == 3
MaxErrors == 1

-----------------------------------------------------------------------------
\* Program constants

\* const HASHBANG = "#!/usr/bin/env goplay"
HASHBANG == <<"#","!","/","u","s","r","/","b","i","n","/","e","n","v"," ","g","o","p","l","a","y">>

\* Configuration default values
DefaultConfig == [ForceCompile |-> FALSE, CompleteBuild |-> FALSE,
                  HotReload |-> FALSE, HotReloadRecursive |-> FALSE,
                  HotReloadWatchExtensions |-> << <<"g", "o">> >>,
                  GoplayDirectory |-> <<".", "g", "o", "p", "l", "a", "y">>]

-----------------------------------------------------------------------------
\* Hashbang transformer: CheckForHashbang and CommentHashbang

\* Index of the first "\n" of f, or 0
RECURSIVE NewlineAt(_, _)
NewlineAt(f, i) ==
    IF i > Len(f) THEN 0
    ELSE IF f[i] = "\n" THEN i
    ELSE NewlineAt(f, i + 1)

\* bufio.Reader.ReadLine on a fresh reader: the first line without its
\* terminator "\n" or "\r\n"; at end of file the rest of the file as it is
FirstLine(f) ==
    LET n == NewlineAt(f, 1) IN
    IF n = 0 THEN f
    ELSE IF n > 1 /\ f[n - 1] = "\r" THEN SubSeq(f, 1, n - 2)
    ELSE SubSeq(f, 1, n - 1)

\* ReadLine fails with io.EOF on an empty file: log.Fatalf
FirstLineFails(f) == f = <<>>

\* Mutant: the file only has to begin with the hashbang
CheckForHashbangPrefix(f) ==
    Len(f) >= Len(HASHBANG) /\ SubSeq(f, 1, Len(HASHBANG)) = HASHBANG

CheckForHashbang(f) == FirstLine(f) = HASHBANG

\* file.Seek(0, 0); file.Write(comment): overwrites in place, extends a shorter file
CommentHashbang(f, comment) ==
    [i \in 1..(IF Len(f) > Len(comment) THEN Len(f) ELSE Len(comment)) |->
        IF i <= Len(comment) THEN comment[i] ELSE f[i]]

Slashes == <<"/", "/">>
HashBangPrefix == <<"#", "!">>

-----------------------------------------------------------------------------
\* Command line: flag.Parse with the four boolean flags f, b, r, R

NoFlags == [f |-> FALSE, b |-> FALSE, r |-> FALSE, R |-> FALSE]

\* Index of the first "=" of name at position 2 or later, or 0
RECURSIVE EqualsAt(_, _)
EqualsAt(name, i) ==
    IF i > Len(name) THEN 0
    ELSE IF name[i] = "=" THEN i
    ELSE EqualsAt(name, i + 1)

\* strconv.ParseBool: "true", "false" or "error"
ParseBool(v) ==
    IF v \in { <<"1">>, <<"t">>, <<"T">>, <<"T","R","U","E">>, <<"t","r","u","e">>,
               <<"T","r","u","e">> } THEN "true"
    ELSE IF v \in { <<"0">>, <<"f">>, <<"F">>, <<"F","A","L","S","E">>,
                    <<"f","a","l","s","e">>, <<"F","a","l","s","e">> } THEN "false"
    ELSE "error"

\* flag.FlagSet.Parse: flags are read up to the first non-flag token or "--";
\* an undefined flag, a bad value or -h ends in usage()
RECURSIVE FlagParse(_, _)
FlagParse(a, fl) ==
    IF a = <<>> THEN [flags |-> fl, rest |-> a, err |-> FALSE]
    ELSE LET s == Head(a) IN
        IF Len(s) < 2 \/ s[1] # "-" THEN [flags |-> fl, rest |-> a, err |-> FALSE]
        ELSE IF s = <<"-", "-">> THEN [flags |-> fl, rest |-> Tail(a), err |-> FALSE]
        ELSE
            LET minuses == IF s[2] = "-" THEN 2 ELSE 1
                full == SubSeq(s, minuses + 1, Len(s))
                eq == IF full = <<>> THEN 0 ELSE EqualsAt(full, 2)
                name == IF eq = 0 THEN full ELSE SubSeq(full, 1, eq - 1)
                value == IF eq = 0 THEN "true" ELSE ParseBool(SubSeq(full, eq + 1, Len(full)))
                bad == [flags |-> fl, rest |-> Tail(a), err |-> TRUE]
            IN  IF full = <<>> \/ full[1] = "-" \/ full[1] = "=" THEN bad
                ELSE IF name \notin { <<"f">>, <<"b">>, <<"r">>, <<"R">> } THEN bad
                ELSE IF value = "error" THEN bad
                ELSE FlagParse(Tail(a),
                               [fl EXCEPT ![name[1]] = (value = "true")])

-----------------------------------------------------------------------------
\* Configuration

\* A configuration file that does not exist
NoFile == [present |-> FALSE, readable |-> FALSE, lines |-> <<>>]

\* A file that exists and that ioutil.ReadFile cannot read (no read
\* permission, or a directory of that name)
Unreadable == [present |-> TRUE, readable |-> FALSE, lines |-> <<>>]

\* strings.ToLower
ToLower(str) ==
    LET Uppers == <<"A","B","C","D","E","F","G","H","I","J","K","L","M",
                    "N","O","P","Q","R","S","T","U","V","W","X","Y","Z">>
        Lowers == <<"a","b","c","d","e","f","g","h","i","j","k","l","m",
                    "n","o","p","q","r","s","t","u","v","w","x","y","z">>
    IN  [i \in 1..Len(str) |->
            IF \E j \in 1..Len(Uppers) : Uppers[j] = str[i]
            THEN Lowers[CHOOSE j \in 1..Len(Uppers) : Uppers[j] = str[i]]
            ELSE str[i]]

\* strings.Replace(str, "_", "", -1)
RemoveUnderscores(str) == SelectSeq(str, LAMBDA ch : ch # "_")

\* strings.Trim(str, "\t ")
RECURSIVE TrimBlanks(_)
TrimBlanks(str) ==
    IF str = <<>> THEN str
    ELSE IF Head(str) \in {" ", "\t"} THEN TrimBlanks(Tail(str))
    ELSE IF str[Len(str)] \in {" ", "\t"} THEN TrimBlanks(SubSeq(str, 1, Len(str) - 1))
    ELSE str

\* Mutant: the keys are compared as they are written in the file
PropertiesCaseSensitive(lines) ==
    LET keys == { lines[i].key : i \in 1..Len(lines) }
    IN  [k \in keys |->
            LET last == CHOOSE i \in 1..Len(lines) :
                            lines[i].key = k /\ \A j \in (i + 1)..Len(lines) : lines[j].key # k
            IN  ToLower(TrimBlanks(lines[last].value))]

\* The properties map of ReadConfigurationFile: for each line "key value" the
\* key in lower case without underscores, the value trimmed and in lower
\* case; a later line with the same key replaces an earlier one
Properties(lines) ==
    LET key(i) == RemoveUnderscores(ToLower(lines[i].key))
        keys == { key(i) : i \in 1..Len(lines) }
    IN  [k \in keys |->
            LET last == CHOOSE i \in 1..Len(lines) :
                            key(i) = k /\ \A j \in (i + 1)..Len(lines) : key(j) # k
            IN  ToLower(TrimBlanks(lines[last].value))]

KeyForceCompile == <<"f","o","r","c","e","c","o","m","p","i","l","e">>
KeyCompleteBuild == <<"c","o","m","p","l","e","t","e","b","u","i","l","d">>
KeyHotReload == <<"h","o","t","r","e","l","o","a","d">>
KeyHotReloadRecursive == KeyHotReload \o <<"r","e","c","u","r","s","i","v","e">>
KeyHotReloadWatchExtensions ==
    KeyHotReload \o <<"w","a","t","c","h","e","x","t","e","n","s","i","o","n","s">>
KeyGoplayDirectory == <<"g","o","p","l","a","y","d","i","r","e","c","t","o","r","y">>

\* value == "yes" || strconv.ParseBool(value)
RcBool(v) == v = <<"y", "e", "s">> \/ ParseBool(v) = "true"

\* strings.Split on a one-byte separator; cur is the element being read
RECURSIVE SplitOn(_, _, _)
SplitOn(str, sep, cur) ==
    IF str = <<>> THEN <<cur>>
    ELSE IF Head(str) = sep THEN <<cur>> \o SplitOn(Tail(str), sep, <<>>)
    ELSE SplitOn(Tail(str), sep, Append(cur, Head(str)))

\* strings.SplitN(value, ",", -1); no extensions for an empty value
RcExtensions(v) == IF v = <<>> THEN <<>> ELSE SplitOn(v, ",", <<>>)

\* ReadConfigurationFile: a key found in the file overwrites the field
ReadConfigurationFile(file, c) ==
    IF ~file.present THEN c
    ELSE LET p == Properties(file.lines)
             bool(k, old) == IF k \in DOMAIN p THEN RcBool(p[k]) ELSE old
         IN  [ForceCompile |-> bool(KeyForceCompile, c.ForceCompile),
              CompleteBuild |-> bool(KeyCompleteBuild, c.CompleteBuild),
              HotReload |-> bool(KeyHotReload, c.HotReload),
              HotReloadRecursive |-> bool(KeyHotReloadRecursive, c.HotReloadRecursive),
              HotReloadWatchExtensions |->
                  IF KeyHotReloadWatchExtensions \in DOMAIN p
                  THEN RcExtensions(p[KeyHotReloadWatchExtensions])
                  ELSE c.HotReloadWatchExtensions,
              GoplayDirectory |->
                  IF KeyGoplayDirectory \in DOMAIN p THEN p[KeyGoplayDirectory]
                  ELSE c.GoplayDirectory]

\* The value ReadConfigurationFile returns: the file exists
ReadConfigurationFileFound(file) == file.present

\* ReadConfigurationFile: ioutil.ReadFile returns an error, log.Fatalf
ReadFileFails(file) == file.present /\ ~file.readable

\* Mutant: -r and -R switch on their own setting only
ApplyFlagsNoImplication(c, fl) ==
    [c EXCEPT !.ForceCompile = @ \/ fl.f, !.CompleteBuild = @ \/ fl.b,
              !.HotReload = @ \/ fl.r, !.HotReloadRecursive = @ \/ fl.R]

\* main: command-line flags take precedence over configuration file values
ApplyFlags(c, fl) ==
    LET c1 == IF fl.f THEN [c EXCEPT !.ForceCompile = TRUE] ELSE c
        c2 == IF fl.b THEN [c1 EXCEPT !.CompleteBuild = TRUE] ELSE c1
        c3 == IF fl.R THEN [c2 EXCEPT !.HotReloadRecursive = TRUE] ELSE c2
        reload == fl.r \/ fl.R
    IN  IF reload THEN [c3 EXCEPT !.HotReload = TRUE, !.ForceCompile = TRUE] ELSE c3

\* Mutant: the system-wide file is read last
ResolveConfigSystemLast(files, fl) ==
    ApplyFlags(ReadConfigurationFile(files[1],
               ReadConfigurationFile(files[2],
               ReadConfigurationFile(files[3], DefaultConfig))), fl)

\* main: the three configuration files in order, then the flags
ResolveConfig(files, fl) ==
    ApplyFlags(ReadConfigurationFile(files[3],
               ReadConfigurationFile(files[2],
               ReadConfigurationFile(files[1], DefaultConfig))), fl)

-----------------------------------------------------------------------------
\* Staleness check of main

\* time.Time.After
After(t, u) == t > u

\* Mutant: an equal timestamp counts as stale
CompileNeededOrEqual(force, exists, scriptTime, binaryTime) ==
    IF ~force /\ exists THEN scriptTime >= binaryTime ELSE TRUE

\* Mutant: without a binary nothing is compared and nothing is built
CompileNeededNoBinary(force, exists, scriptTime, binaryTime) ==
    force \/ (exists /\ After(scriptTime, binaryTime))

\* Mutant: the force flag is not consulted
CompileNeededNoForce(force, exists, scriptTime, binaryTime) ==
    IF exists THEN After(scriptTime, binaryTime) ELSE TRUE

\* compileNeeded as main computes it
CompileNeeded(force, exists, scriptTime, binaryTime) ==
    IF ~force /\ exists THEN After(scriptTime, binaryTime) ELSE TRUE

-----------------------------------------------------------------------------
\* Paths (clean paths with "/" as separator)

RECURSIVE LastIndexOf(_, _, _)
LastIndexOf(p, c, i) ==
    IF i = 0 THEN 0
    ELSE IF p[i] = c THEN i
    ELSE LastIndexOf(p, c, i - 1)

\* filepath.Base
Base(p) == SubSeq(p, LastIndexOf(p, "/", Len(p)) + 1, Len(p))

\* filepath.Dir
Dir(p) ==
    LET i == LastIndexOf(p, "/", Len(p)) IN
    IF i = 0 THEN <<".">>
    ELSE IF i = 1 THEN <<"/">>
    ELSE SubSeq(p, 1, i - 1)

\* filepath.Ext: the suffix of the last element that begins at its final dot
Ext(p) ==
    LET b == Base(p)
        i == LastIndexOf(b, ".", Len(b))
    IN  IF i = 0 THEN <<>> ELSE SubSeq(b, i, Len(b))

\* filepath.Split: the directory with its trailing separator, and the file name
SplitPath(p) ==
    LET i == LastIndexOf(p, "/", Len(p)) IN
    [dir |-> SubSeq(p, 1, i), file |-> SubSeq(p, i + 1, Len(p))]

\* strings.Join: the elements with the separator between them
RECURSIVE JoinWith(_, _)
JoinWith(elems, sep) ==
    IF elems = <<>> THEN <<>>
    ELSE IF Len(elems) = 1 THEN elems[1]
    ELSE elems[1] \o <<sep>> \o JoinWith(Tail(elems), sep)

\* The elements of a cleaned path: empty and "." elements are dropped, ".."
\* removes the element before it, is kept in front of a relative path and is
\* dropped at the root
RECURSIVE CleanElems(_, _, _)
CleanElems(elems, out, rooted) ==
    IF elems = <<>> THEN out
    ELSE LET el == Head(elems)
             next == IF el = <<>> \/ el = <<".">> THEN out
                     ELSE IF el # <<".", ".">> THEN Append(out, el)
                     ELSE IF out # <<>> /\ out[Len(out)] # <<".", ".">>
                          THEN SubSeq(out, 1, Len(out) - 1)
                     ELSE IF rooted THEN out
                     ELSE Append(out, el)
         IN  CleanElems(Tail(elems), next, rooted)

\* filepath.Clean
Clean(p) ==
    LET rooted == p # <<>> /\ p[1] = "/"
        body == JoinWith(CleanElems(SplitOn(p, "/", <<>>), <<>>, rooted), "/")
    IN  IF rooted THEN <<"/">> \o body
        ELSE IF body = <<>> THEN <<".">>
        ELSE body

\* filepath.Join: the non-empty elements joined and cleaned
Join(elems) ==
    LET used == SelectSeq(elems, LAMBDA el : el # <<>>) IN
    IF used = <<>> THEN <<>> ELSE Clean(JoinWith(used, "/"))

\* filepath.Abs: an absolute path cleaned, a relative one joined to the
\* working directory
Abs(p, wd) ==
    IF p # <<>> /\ p[1] = "/" THEN Clean(p)
    ELSE Join(<<wd, p>>)

\* strings.Replace(str, "/", "_", -1)
SeparatorsToUnderscores(str) == [i \in 1..Len(str) |-> IF str[i] = "/" THEN "_" ELSE str[i]]

\* Index at which old first occurs in str, or 0
RECURSIVE IndexOf(_, _, _)
IndexOf(str, old, i) ==
    IF i + Len(old) - 1 > Len(str) THEN 0
    ELSE IF SubSeq(str, i, i + Len(old) - 1) = old THEN i
    ELSE IndexOf(str, old, i + 1)

\* strings.Replace(str, old, "", 1): the first occurrence of old is removed
RemoveFirst(str, old) ==
    LET i == IndexOf(str, old, 1) IN
    IF i = 0 THEN str
    ELSE SubSeq(str, 1, i - 1) \o SubSeq(str, i + Len(old), Len(str))

\* filepath.Base(build.ToolDir)
ToolTag == <<"l","i","n","u","x","_","a","m","d","6","4">>

\* Mutant: a relative goplay directory is taken from the working directory
BinaryDirOfWorkingDir(scriptPath, c) ==
    IF c.GoplayDirectory # <<>> /\ c.GoplayDirectory[1] = "/"
    THEN Join(<<c.GoplayDirectory, SeparatorsToUnderscores(scriptPath), ToolTag>>)
    ELSE Join(<<cwd, c.GoplayDirectory, ToolTag>>)

\* Mutant: an absolute goplay directory is keyed by the script's directory
BinaryDirOfScriptDir(scriptPath, c) ==
    IF c.GoplayDirectory # <<>> /\ c.GoplayDirectory[1] = "/"
    THEN Join(<<c.GoplayDirectory,
                SeparatorsToUnderscores(Clean(SplitPath(scriptPath).dir)), ToolTag>>)
    ELSE Join(<<SplitPath(scriptPath).dir, c.GoplayDirectory, ToolTag>>)

\* binaryDir of main
BinaryDir(scriptPath, c) ==
    IF c.GoplayDirectory # <<>> /\ c.GoplayDirectory[1] = "/"
    THEN Join(<<c.GoplayDirectory, SeparatorsToUnderscores(scriptPath), ToolTag>>)
    ELSE Join(<<SplitPath(scriptPath).dir, c.GoplayDirectory, ToolTag>>)

\* binaryPath of main (not on Windows)
BinaryPath(scriptPath, c) ==
    LET scriptName == SplitPath(scriptPath).file IN
    Join(<<BinaryDir(scriptPath, c), RemoveFirst(scriptName, Ext(scriptName))>>)

-----------------------------------------------------------------------------
\* The inputs of the model

ScriptDir == <<"/", "w">>
OtherDir == <<"/", "h">>
RelScript == <<"s", ".", "g", "o">>
AbsScript == <<"/", "w", "/", "s", ".", "g", "o">>
One == <<"O", "n", "e">>
FlagF == <<"-", "f">>
FlagB == <<"-", "b">>
FlagR == <<"-", "r">>
FlagRR == <<"-", "R">>
DashDash == <<"-", "-">>

\* Invocations that end in usage()
UsageCmds == { <<>>, << <<"-", "x">>, RelScript>>, <<FlagF>>, <<FlagR, DashDash>> }

\* Invocations without hot reload
PlainCmds ==
    { <<RelScript>>,
      <<AbsScript, FlagF, One>>,
      <<FlagF, RelScript>>,
      <<FlagB, AbsScript>>,
      <<DashDash, RelScript, FlagR>> }

\* Invocations in hot-reload mode
HotCmds ==
    { <<FlagR, RelScript, One>>,
      <<FlagRR, FlagB, AbsScript, FlagF>> }

\* The working directory goplay is started in: the script's directory for a
\* relative script path, another directory for an absolute one
StartDir(cl) ==
    IF \E i \in 1..Len(cl) : cl[i] = AbsScript THEN OtherDir ELSE ScriptDir

Scripts ==
    { HASHBANG \o <<"\n", "p">>,
      HASHBANG,
      <<"p", "\n">>,
      HASHBANG \o <<" ", "\n">>,
      <<>> }

\* Configuration files of one line
RcLine(key, value) == [present |-> TRUE, readable |-> TRUE, lines |-> <<[key |-> key, value |-> value]>>]
RcYes(key) == RcLine(key, <<"Y", "e", "s">>)
RcNo(key) == RcLine(key, <<"N", "o">>)

NoRc == <<NoFile, NoFile, NoFile>>

RcSets ==
    { <<NoFile, RcYes(<<"F","o","r","c","e","C","o","m","p","i","l","e">>),
        RcNo(KeyForceCompile)>>,
      <<RcYes(KeyForceCompile), NoFile, [present |-> TRUE, readable |-> TRUE, lines |-> <<>>]>>,
      <<NoFile, NoFile, RcYes(<<"H","o","t","R","e","l","o","a","d">>)>>,
      <<NoFile, RcLine(KeyGoplayDirectory, <<"/", "c">>), NoFile>>,
      <<NoFile, NoFile, Unreadable>> }

ExitCodes == {0, 3}

\* Files whose changes the watcher can report
Changes ==
    { [name |-> AbsScript, attrib |-> FALSE],
      [name |-> AbsScript, attrib |-> TRUE],
      [name |-> <<"/", "w", "/", "x", ".", "g", "o">>, attrib |-> FALSE],
      [name |-> <<"/", "w", "/", "n", ".", "t", "x", "t">>, attrib |-> FALSE] }

-----------------------------------------------------------------------------
\* The directory tree and GetSubdirectories

File(name) == [name |-> name, isDir |-> FALSE]
Directory(name) == [name |-> name, isDir |-> TRUE]

HiddenDir == <<".", "g">>
GoplayDir == <<".", "g", "o", "p", "l", "a", "y">>

\* The entries of a directory, in the lexical order filepath.Walk visits them
DirEntries(path) ==
    IF path = ScriptDir
    THEN << Directory(HiddenDir), Directory(GoplayDir), Directory(<<"d">>),
            File(<<"n", ".", "t", "x", "t">>), File(RelScript),
            File(<<"x", ".", "g", "o">>) >>
    ELSE IF path = ScriptDir \o <<"/">> \o HiddenDir
    THEN << Directory(<<"o">>) >>
    ELSE IF path = ScriptDir \o <<"/">> \o GoplayDir
    THEN << Directory(ToolTag) >>
    ELSE IF path = ScriptDir \o <<"/", "d">>
    THEN << Directory(<<"e">>), File(<<"y", ".", "g", "o">>) >>
    ELSE <<>>

\* filepath.HasPrefix
HasPrefix(str, prefix) ==
    Len(prefix) <= Len(str) /\ SubSeq(str, 1, Len(prefix)) = prefix

\* The walk function of GetSubdirectories: what it appends to paths
Subdirs(path, fileinfo, startPath) ==
    IF fileinfo.isDir /\ ~HasPrefix(fileinfo.name, <<".">>) /\ path # startPath
    THEN <<path>>
    ELSE <<>>

\* filepath.Walk: the walk function is called for the entry, then for the
\* entries of a directory in lexical order
RECURSIVE Walk(_, _, _)
RECURSIVE WalkEntries(_, _, _)
Walk(path, fileinfo, startPath) ==
    Subdirs(path, fileinfo, startPath) \o
    (IF fileinfo.isDir THEN WalkEntries(path, DirEntries(path), startPath) ELSE <<>>)

WalkEntries(path, entries, startPath) ==
    IF entries = <<>> THEN <<>>
    ELSE Walk(Join(<<path, Head(entries).name>>), Head(entries), startPath) \o
         WalkEntries(path, Tail(entries), startPath)

\* GetSubdirectories(startPath): the directories the walk has appended
GetSubdirectories(scriptPath) ==
    LET startPath == Dir(scriptPath) IN
    Walk(startPath, Directory(Base(startPath)), startPath)

-----------------------------------------------------------------------------
\* State

NoCb == [active |-> FALSE, ret |-> "", goBuild |-> FALSE, hasHashbang |-> FALSE,
         commented |-> FALSE, restores |-> 0, fail |-> "", chdir |-> FALSE,
         prevDir |-> <<>>, ended |-> ""]
NoChild == [id |-> 0, status |-> "none", code |-> 0, args |-> <<>>, cmd |-> 0]
NoErr == [exit |-> FALSE, status |-> 0]
NoSeen == [checked |-> FALSE, force |-> FALSE, exists |-> FALSE, st |-> 0, bt |-> 0]
NoBinary == [dir |-> <<>>, path |-> <<>>]
NoUser == [pc |-> "idle", name |-> <<>>, buf |-> <<>>, obuf |-> <<>>]
NoWatcher == [open |-> FALSE, watches |-> {}, errors |-> 0, walked |-> 0]
NoRead == [called |-> FALSE, before |-> DefaultConfig, found |-> FALSE]
NoHist == [changes |-> 0, edited |-> FALSE, cycle |-> <<>>, built1 |-> FALSE,
           coalesced |-> FALSE, binary1 |-> NoBinary, script1 |-> <<>>,
           config1 |-> DefaultConfig, cwd1 |-> <<>>, live |-> FALSE, read |-> NoRead,
           accepted |-> 0, rebuilds |-> 0, matching |-> 0, unbuilt |-> FALSE,
           errors |-> 0, logged |-> 0]

\* The script's bytes and the timestamps an invocation can find
InitFiles(scripts, times) ==
    /\ script \in scripts
    /\ scriptMtime \in times
    /\ binExists \in BOOLEAN
    /\ binMtime \in (IF binExists THEN times ELSE {0})

InitInputs ==
    \/ /\ cmdline \in UsageCmds
       /\ rcs = NoRc
       /\ InitFiles({HASHBANG \o <<"\n", "p">>}, {1})
    \/ /\ cmdline \in PlainCmds
       /\ rcs = NoRc
       /\ InitFiles(Scripts, 1..2)
    \/ /\ cmdline = <<RelScript>>
       /\ rcs \in RcSets
       /\ IF rcs[3] = RcYes(<<"H","o","t","R","e","l","o","a","d">>)
          THEN InitFiles({HASHBANG \o <<"\n", "p">>}, {2})
          ELSE InitFiles({HASHBANG \o <<"\n", "p">>, <<"p", "\n">>}, 1..2)
    \/ /\ cmdline \in HotCmds
       /\ rcs = NoRc
       /\ InitFiles({HASHBANG \o <<"\n", "p">>, <<"p", "\n">>}, {1})

\* The state at the start of main.  A hot-reload run starts with the clock at
\* its bound, so that every write of the run is stamped alike
Init ==
    /\ InitInputs
    /\ orig = script
    /\ user = NoUser
    /\ objExists = FALSE
    /\ clock = IF cmdline \in HotCmds \/ rcs[3] = RcYes(<<"H","o","t","R","e","l","o","a","d">>)
               THEN MaxClock ELSE 2
    /\ cwd = StartDir(cmdline)
    /\ run = 1
    /\ pc = "parse"
    /\ config = DefaultConfig
    /\ args = <<>>
    /\ binary = NoBinary
    /\ compileNeeded = FALSE
    /\ seen = NoSeen
    /\ cb = NoCb
    /\ restart = FALSE
    /\ lpc = "off"
    /\ events = <<>>
    /\ watcher = NoWatcher
    /\ child = NoChild
    /\ waitErr = NoErr
    /\ exitStatus = -1
    /\ exitVia = ""
    /\ hist = NoHist

\* The clock value a write is stamped with
Stamps == {clock} \cup (IF clock < MaxClock THEN {clock + 1} ELSE {})

\* The process terminates: os.Exit, log.Fatal or a crash; its goroutines end
Terminate(status, via) ==
    /\ pc' = "done"
    /\ exitStatus' = status % 256
    /\ exitVia' = via
    /\ lpc' = "off"
    /\ watcher' = NoWatcher
    /\ events' = <<>>

fsVars == <<script, scriptMtime, binExists, binMtime, objExists, clock>>
inputVars == <<cmdline, rcs, orig, run, user>>
watchVars == <<restart, lpc, events, watcher>>
childVars == <<child, waitErr>>
mainVars == <<config, args, binary, compileNeeded, seen>>
exitVars == <<exitStatus, exitVia>>

-----------------------------------------------------------------------------
\* main

\* scriptPath, err := filepath.Abs(flag.Args()[0])
ScriptPath == Abs(Head(args), StartDir(cmdline))

\* Mutant: all of flag.Args() is handed on, the script path included
ChildArgsAll(a) == a

\* flag.Args()[1:], the arguments handed to StartBinary
ChildArgs(a) == Tail(a)

\* The watcher reports a change of a watched file, or of a file directly in
\* a watched directory
Reported(name) == name \in watcher.watches \/ Dir(name) \in watcher.watches

\* A write to a file, or its removal, by goplay itself or by its toolchain is
\* reported by the watcher like any other
WriteEvents(name) ==
    IF watcher.open /\ Reported(name) /\ Len(events) < MaxQueue
    THEN Append(events, [name |-> name, attrib |-> FALSE])
    ELSE events

\* objectPath := filepath.Join(binaryDir, "_go_."+archChar)
ObjectPath == Join(<<binary.dir, <<"_", "g", "o", "_", ".", "6">> >>)

CallCompileBinary(ret) ==
    /\ cb' = [NoCb EXCEPT !.active = TRUE, !.ret = ret, !.goBuild = config.CompleteBuild]
    /\ hist' = [hist EXCEPT !.built1 = @ \/ run = 1,
                            !.cycle = IF ret = "rstart" THEN Append(@, "build") ELSE @,
                            !.rebuilds = IF ret = "rstart" THEN @ + 1 ELSE @, !.unbuilt = FALSE]
    /\ pc' = "cb_open"

\* Mutant: usage ends the process with status 0
UsageExitZero == Terminate(0, "usage")

\* usage(): print the help text and os.Exit(1)
Usage == Terminate(1, "usage")

\* flag.Parse, usage, the configuration files, the command-line flags and
\* the binary paths
MainParse ==
    /\ pc = "parse"
    /\ LET p == FlagParse(cmdline, NoFlags) IN
       IF p.err \/ p.rest = <<>>
       THEN /\ Usage
            /\ UNCHANGED <<config, args, binary, hist>>
       ELSE \/ \* filepath.Abs of a relative path: os.Getwd fails, log.Fatal
               /\ Head(p.rest) = <<>> \/ Head(p.rest)[1] # "/"
               /\ Terminate(1, "fatal_abs")
               /\ args' = p.rest
               /\ UNCHANGED <<config, binary, hist>>
            \/ IF \E i \in 1..3 : ReadFileFails(rcs[i])
               THEN \* log.Fatalf in ReadConfigurationFile; the files before it
                    \* were read
                    /\ Terminate(1, "fatal_readcfg")
                    /\ args' = p.rest
                    /\ config' = IF ReadFileFails(rcs[1]) THEN config
                                  ELSE IF ReadFileFails(rcs[2])
                                       THEN ReadConfigurationFile(rcs[1], DefaultConfig)
                                  ELSE ReadConfigurationFile(rcs[2],
                                           ReadConfigurationFile(rcs[1], DefaultConfig))
                    /\ UNCHANGED <<binary, hist>>
               ELSE /\ args' = p.rest
                    /\ config' = ResolveConfig(rcs, p.flags)
                    /\ LET scriptPath == Abs(Head(p.rest), cwd) IN
                       binary' = [dir |-> BinaryDir(scriptPath, config'),
                                  path |-> BinaryPath(scriptPath, config')]
                    /\ hist' = IF run > 1 THEN hist
                                ELSE [hist EXCEPT !.binary1 = binary',
                                                  !.script1 = Abs(Head(p.rest), cwd),
                                                  !.config1 = config',
                                                  !.cwd1 = cwd]
                    /\ pc' = "mkdir"
                    /\ UNCHANGED <<exitStatus, exitVia, lpc, watcher, events>>
    /\ UNCHANGED <<fsVars, inputVars, cwd, compileNeeded, seen, cb, restart,
                   childVars>>

\* Check directory: os.MkdirAll(binaryDir, 0750)
MainMkdir ==
    /\ pc = "mkdir"
    /\ \/ /\ pc' = "stale"
          /\ UNCHANGED <<exitStatus, exitVia, lpc, watcher, events>>
       \/ Terminate(1, "fatal_mkdir")
    /\ UNCHANGED <<fsVars, inputVars, cwd, mainVars, cb, restart, childVars, hist>>

\* Check if compilation is needed, and compile if it is
MainStale ==
    /\ pc = "stale"
    /\ \/ /\ compileNeeded' = CompileNeeded(config.ForceCompile, binExists, scriptMtime,
                                             binMtime)
          /\ seen' = [checked |-> TRUE, force |-> config.ForceCompile,
                      exists |-> binExists, st |-> scriptMtime, bt |-> binMtime]
          /\ IF compileNeeded'
             THEN CallCompileBinary("watch")
             ELSE pc' = "watch" /\ UNCHANGED <<cb, hist>>
          /\ UNCHANGED <<watchVars, exitVars>>
       \/ \* GetTime: os.Stat fails, log.Fatal
          /\ ~config.ForceCompile /\ binExists
          /\ Terminate(1, "fatal_stat")
          /\ UNCHANGED <<compileNeeded, seen, cb, hist, restart>>
    /\ UNCHANGED <<fsVars, inputVars, cwd, config, args, binary, childVars>>

-----------------------------------------------------------------------------
\* CompileBinary

\* Mutant: a panic skips the deferred chdir back
PanicKeepsDir(what) ==
    /\ cb' = [cb EXCEPT !.fail = what]
    /\ pc' = "cb_restore"

\* A panic in the build: the deferred functions run, the chdir back first
Panic(what) ==
    /\ cb' = [cb EXCEPT !.fail = what]
    /\ pc' = IF cb.chdir THEN "cb_back" ELSE "cb_restore"

\* os.OpenFile(scriptPath, os.O_RDWR, 0)
CbOpen ==
    /\ pc = "cb_open"
    /\ \/ /\ pc' = "cb_check"
          /\ UNCHANGED <<cb, exitStatus, exitVia, lpc, watcher, events>>
       \/ /\ Terminate(1, "fatal_open")
          /\ cb' = [cb EXCEPT !.ended = "fatal"]
    /\ UNCHANGED <<fsVars, inputVars, cwd, mainVars, restart, childVars, hist>>

\* hasHashbang := CheckForHashbang(file): the first line is read and compared
CbCheck ==
    /\ pc = "cb_check"
    /\ IF FirstLineFails(script)
       THEN /\ Terminate(1, "fatal_read")
            /\ cb' = [cb EXCEPT !.ended = "fatal"]
       ELSE /\ cb' = [cb EXCEPT !.hasHashbang = CheckForHashbang(script)]
            /\ pc' = IF CheckForHashbang(script) THEN "cb_comment"
                     ELSE IF cb.goBuild THEN "cb_chdir" ELSE "cb_compile"
            /\ UNCHANGED <<exitStatus, exitVia, lpc, watcher, events>>
    /\ UNCHANGED <<fsVars, inputVars, cwd, mainVars, restart, childVars, hist>>

\* if hasHashbang { CommentHashbang(file, "//") }: a second call, which writes
\* over the first two bytes of the file as it is by then
CbComment ==
    /\ pc = "cb_comment"
    /\ \/ \E t \in Stamps :
            /\ script' = CommentHashbang(script, Slashes)
            /\ scriptMtime' = t
            /\ clock' = t
            /\ events' = WriteEvents(ScriptPath)
            /\ cb' = [cb EXCEPT !.commented = TRUE]
            /\ pc' = IF cb.goBuild THEN "cb_chdir" ELSE "cb_compile"
            /\ UNCHANGED <<exitStatus, exitVia, lpc, watcher>>
       \/ /\ Terminate(1, "fatal_write")
          /\ cb' = [cb EXCEPT !.ended = "fatal"]
          /\ UNCHANGED <<script, scriptMtime, clock>>
    /\ UNCHANGED <<binExists, binMtime, objExists, inputVars, cwd, mainVars,
                   restart, childVars, hist>>

\* os.Getwd, and os.Chdir(scriptDir) with its deferred os.Chdir(currentDir)
CbChdir ==
    /\ pc = "cb_chdir"
    /\ \/ Panic("getwd") /\ UNCHANGED cwd
       \/ /\ cwd # Dir(ScriptPath)
          /\ \/ /\ cwd' = Dir(ScriptPath)
                /\ cb' = [cb EXCEPT !.chdir = TRUE, !.prevDir = cwd]
                /\ pc' = "cb_gobuild"
             \/ Panic("chdir") /\ UNCHANGED cwd
       \/ /\ cwd = Dir(ScriptPath)
          /\ pc' = "cb_gobuild"
          /\ UNCHANGED <<cb, cwd>>
    /\ UNCHANGED <<fsVars, inputVars, mainVars, watchVars, childVars, exitVars, hist>>

\* exec.Command("go", "build", "-o", binaryPath).CombinedOutput()
CbGoBuild ==
    /\ pc = "cb_gobuild"
    /\ \/ \E t \in Stamps :
            /\ binExists' = TRUE
            /\ binMtime' = t
            /\ clock' = t
            /\ events' = WriteEvents(binary.path)
            /\ pc' = IF cb.chdir THEN "cb_back" ELSE "cb_restore"
            /\ UNCHANGED cb
       \/ Panic("gobuild") /\ UNCHANGED <<binExists, binMtime, clock, events>>
    /\ UNCHANGED <<script, scriptMtime, objExists, inputVars, cwd, mainVars,
                   restart, lpc, watcher, childVars, exitVars, hist>>

\* build.ArchChar and the compiler, writing the object file
CbCompile ==
    /\ pc = "cb_compile"
    /\ \/ Panic("archchar") /\ UNCHANGED <<objExists, events>>
       \/ Panic("compile") /\ UNCHANGED <<objExists, events>>
       \/ /\ objExists' = TRUE
          /\ events' = WriteEvents(ObjectPath)
          /\ pc' = "cb_link"
          /\ UNCHANGED cb
    /\ UNCHANGED <<script, scriptMtime, binExists, binMtime, clock, inputVars, cwd,
                   mainVars, restart, lpc, watcher, childVars, exitVars, hist>>

\* The linker, writing the binary
CbLink ==
    /\ pc = "cb_link"
    /\ \/ \E t \in Stamps :
            /\ binExists' = TRUE
            /\ binMtime' = t
            /\ clock' = t
            /\ events' = WriteEvents(binary.path)
            /\ pc' = "cb_remove"
            /\ UNCHANGED cb
       \/ Panic("link") /\ UNCHANGED <<binExists, binMtime, clock, events>>
    /\ UNCHANGED <<script, scriptMtime, objExists, inputVars, cwd, mainVars,
                   restart, lpc, watcher, childVars, exitVars, hist>>

\* Cleaning: os.Remove(objectPath)
CbRemove ==
    /\ pc = "cb_remove"
    /\ \/ /\ objExists' = FALSE
          /\ events' = WriteEvents(ObjectPath)
          /\ pc' = "cb_restore"
          /\ UNCHANGED cb
       \/ Panic("remove") /\ UNCHANGED <<objExists, events>>
    /\ UNCHANGED <<script, scriptMtime, binExists, binMtime, clock, inputVars, cwd,
                   mainVars, restart, lpc, watcher, childVars, exitVars, hist>>

\* Deferred: go back to the previous directory; a failure panics anew
CbChdirBack ==
    /\ pc = "cb_back"
    /\ \/ /\ cwd' = cb.prevDir
          /\ UNCHANGED cb
       \/ /\ cb' = [cb EXCEPT !.fail = "chdir_back"]
          /\ UNCHANGED cwd
    /\ pc' = "cb_restore"
    /\ UNCHANGED <<fsVars, inputVars, mainVars, watchVars, childVars, exitVars, hist>>

\* Mutant: a panic of the build is swallowed
RecoveredNever(c) == FALSE

\* if r := recover(); r != nil: a step of the build has panicked
Recovered(c) == c.fail # ""

\* Mutant: the hashbang is restored at the end of a successful build only
RestoreOnSuccessOnly(c) == c.hasHashbang /\ c.fail = ""

\* The deferred function restores the hashbang line if hasHashbang
RestoreDue(c) == c.hasHashbang

\* Deferred: restore the hashbang line, then recover the panic for log.Fatal;
\* without a panic the deferred file.Close runs and CompileBinary returns
CbRestore ==
    /\ pc = "cb_restore"
    /\ \/ /\ RestoreDue(cb)
          /\ Terminate(1, "fatal_write_restore")
          /\ cb' = [cb EXCEPT !.ended = "fatal"]
          /\ UNCHANGED <<script, scriptMtime, clock>>
       \/ \E t \in (IF RestoreDue(cb) THEN Stamps ELSE {clock}) :
            LET done == [cb EXCEPT !.restores = IF RestoreDue(cb) THEN @ + 1 ELSE @] IN
            /\ IF RestoreDue(cb)
               THEN /\ script' = CommentHashbang(script, HashBangPrefix)
                    /\ scriptMtime' = t
                    /\ clock' = t
               ELSE UNCHANGED <<script, scriptMtime, clock>>
            /\ IF Recovered(cb)
               THEN /\ Terminate(1, "fatal_build")
                    /\ cb' = [done EXCEPT !.ended = "fatal"]
               ELSE \/ /\ pc' = cb.ret
                       /\ cb' = [done EXCEPT !.ended = "returned", !.active = FALSE]
                       /\ events' = IF RestoreDue(cb) THEN WriteEvents(ScriptPath) ELSE events
                       /\ UNCHANGED <<exitStatus, exitVia, lpc, watcher>>
                    \/ /\ Terminate(1, "fatal_close")
                       /\ cb' = [done EXCEPT !.ended = "fatal"]
    /\ UNCHANGED <<binExists, binMtime, objExists, inputVars, cwd, mainVars,
                   restart, childVars, hist>>

-----------------------------------------------------------------------------
\* RunWatchAndExit: the control loop

\* Watch the whole directory in CompleteBuild ("go build") or recursive mode
DirWatched == config.CompleteBuild \/ config.HotReloadRecursive

\* toWatch: the script, or filepath.Dir(scriptPath)
ToWatch == IF DirWatched THEN Dir(ScriptPath) ELSE ScriptPath

\* fsnotify.NewWatcher and the start of the listener goroutine, which runs
\* from here on, before any path is watched
RunWatch ==
    /\ pc = "watch"
    /\ IF config.HotReload
       THEN \/ /\ lpc' = "select"
               /\ watcher' = [NoWatcher EXCEPT !.open = TRUE]
               /\ pc' = "towatch"
               /\ UNCHANGED <<events, exitStatus, exitVia>>
            \/ Terminate(1, "fatal_watch")
       ELSE /\ pc' = "start"
            /\ UNCHANGED <<lpc, watcher, events, exitStatus, exitVia>>
    /\ UNCHANGED <<fsVars, inputVars, cwd, mainVars, cb, restart, childVars, hist>>

\* watcher.Watch(toWatch), or log.Fatal
RunWatchFirst ==
    /\ pc = "towatch"
    /\ \/ /\ watcher' = [watcher EXCEPT !.watches = @ \cup {ToWatch}]
          /\ pc' = IF config.HotReloadRecursive THEN "subdirs" ELSE "start"
          /\ UNCHANGED <<lpc, events, exitStatus, exitVia>>
       \/ Terminate(1, "fatal_watch")
    /\ UNCHANGED <<fsVars, inputVars, cwd, mainVars, cb, restart, childVars, hist>>

\* for _, dir := range subdirs: watcher.Watch(dir), or log.Fatal; after the
\* last one the loop's end
RunWatchSubdir ==
    /\ pc = "subdirs"
    /\ LET subdirs == GetSubdirectories(ScriptPath) IN
       IF watcher.walked < Len(subdirs)
       THEN \/ /\ watcher' = [watcher EXCEPT
                                  !.watches = @ \cup {subdirs[watcher.walked + 1]},
                                  !.walked = @ + 1]
               /\ UNCHANGED <<pc, lpc, events, exitStatus, exitVia>>
            \/ Terminate(1, "fatal_watch")
       ELSE /\ pc' = "start"
            /\ UNCHANGED <<lpc, watcher, events, exitStatus, exitVia>>
    /\ UNCHANGED <<fsVars, inputVars, cwd, mainVars, cb, restart, childVars, hist>>

\* StartBinary: exec.Command(binaryPath, args...) and cmd.Start(); the
\* process runs before the caller has the *exec.Cmd
StartBinary(next) ==
    \/ /\ binExists
       /\ child' = [id |-> child.id + 1, status |-> "running", code |-> 0,
                    args |-> ChildArgs(args), cmd |-> child.cmd]
       /\ hist' = [hist EXCEPT !.cycle = IF next = "rassign" THEN Append(@, "start") ELSE @]
       /\ pc' = next
       /\ UNCHANGED <<lpc, watcher, events, exitStatus, exitVia>>
    \/ \* cmd.Start() returns an error (with or without a file at binaryPath):
       \* log.Fatalf
       /\ Terminate(1, "fatal_start")
       /\ UNCHANGED <<child, hist>>

\* StartBinary(binaryPath, flag.Args()[1:]) up to its return
RunStart ==
    /\ pc = "start"
    /\ StartBinary("assign")
    /\ UNCHANGED <<fsVars, inputVars, cwd, mainVars, cb, restart, waitErr>>

\* cmd = ...: the variable the listener reads now refers to the new process
RunAssign ==
    /\ pc \in {"assign", "rassign"}
    /\ child' = [child EXCEPT !.cmd = child.id]
    /\ pc' = IF pc = "assign" THEN "wait" ELSE "sleep"
    /\ UNCHANGED <<fsVars, inputVars, cwd, mainVars, cb, watchVars, waitErr,
                   exitVars, hist>>

\* Mutant: every failing child is reported with status 1
WaitResultOne(c) ==
    IF c.status = "exited" /\ c.code = 0 THEN NoErr ELSE [exit |-> TRUE, status |-> 1]

\* The error cmd.Wait returns and the status os.Exit is given for it
WaitResult(c) ==
    IF c.status = "exited" /\ c.code = 0 THEN NoErr
    ELSE [exit |-> TRUE, status |-> IF c.status = "exited" THEN c.code ELSE -1]

\* Mutant: the wait returns while the child still runs
WaitReturnsAtOnce(c) == TRUE

\* cmd.Wait blocks until the child has exited or has been killed
WaitReturns(c) == c.status \in {"exited", "killed"}

\* err = cmd.Wait()
RunWait ==
    /\ pc = "wait"
    /\ WaitReturns(child)
    /\ waitErr' = WaitResult(child)
    /\ pc' = "check"
    /\ UNCHANGED <<fsVars, inputVars, cwd, mainVars, cb, watchVars, child, exitVars, hist>>

\* if restart { CompileBinary(...) ... } else { break }, and the exit code
RunCheck ==
    /\ pc = "check"
    /\ restart => child.id < MaxStarts
    /\ IF restart
       THEN /\ CallCompileBinary("rstart")
            /\ UNCHANGED <<lpc, watcher, events, exitStatus, exitVia>>
       ELSE /\ IF waitErr.exit
               THEN Terminate(waitErr.status, "exit")
               ELSE Terminate(0, "return")
            /\ UNCHANGED <<cb, hist>>
    /\ UNCHANGED <<fsVars, inputVars, cwd, mainVars, restart, childVars>>

\* StartBinary(binaryPath, flag.Args()[1:]) after the rebuild, up to its return
RunRestart ==
    /\ pc = "rstart"
    /\ StartBinary("rassign")
    /\ UNCHANGED <<fsVars, inputVars, cwd, mainVars, cb, restart, waitErr>>

\* time.Sleep(333 * time.Millisecond); restart = false
RunClear ==
    /\ pc = "sleep"
    /\ restart' = FALSE
    /\ pc' = "wait"
    /\ hist' = [hist EXCEPT !.cycle = <<>>, !.live = FALSE]
    /\ UNCHANGED <<fsVars, inputVars, cwd, mainVars, cb, lpc, events, watcher,
                   childVars, exitVars>>

-----------------------------------------------------------------------------
\* RunWatchAndExit: the listener goroutine

\* config.HotReloadWatchExtensions.Contains(fileExtension): the extension is
\* one of the configured watched-extension set
Contains(extensions, fileExtension) ==
    \E i \in 1..Len(extensions) : extensions[i] = fileExtension

\* The event names the script file itself or has one of the extensions to watch
Matches(name) ==
    LET fileName == Base(name)
        e == Ext(fileName)
        fileExtension == IF HasPrefix(e, <<".">>) THEN Tail(e) ELSE e
    IN  \/ fileName = Base(ScriptPath)
        \/ Contains(config.HotReloadWatchExtensions, fileExtension)

\* Mutant: the restart flag is not consulted
AcceptsWhilePending(event) == ~event.attrib /\ Matches(event.name)

\* if !restart && !event.IsAttrib() and the match of the file name
Accepts(event) == ~restart /\ ~event.attrib /\ Matches(event.name)

\* case event := <-watcher.Event, up to restart = true
ListenEvent ==
    /\ lpc = "select"
    /\ events # <<>>
    /\ events' = Tail(events)
    /\ LET event == Head(events) IN
       IF Accepts(event)
       THEN /\ restart' = TRUE
            /\ lpc' = "kill"
            /\ hist' = [hist EXCEPT !.cycle = <<>>, !.accepted = @ + 1,
                                    !.live = pc = "wait" /\ child.status = "running"]
       ELSE /\ UNCHANGED <<restart, lpc>>
            /\ hist' = [hist EXCEPT !.coalesced =
                            @ \/ (restart /\ ~event.attrib /\ Matches(event.name))]
    /\ UNCHANGED <<fsVars, inputVars, cwd, pc, mainVars, cb, watcher, childVars,
                   exitVars>>

\* cmd.Process.Kill() on the process cmd refers to; with cmd still nil the
\* goroutine panics
ListenKill ==
    /\ lpc = "kill"
    /\ IF child.cmd = 0
       THEN /\ Terminate(2, "panic")
            /\ UNCHANGED <<child, hist>>
       ELSE LET hit == child.cmd = child.id /\ child.status = "running" IN
            /\ lpc' = "select"
            /\ child' = IF hit THEN [child EXCEPT !.status = "killed"] ELSE child
            /\ hist' = [hist EXCEPT !.cycle = Append(@, IF hit THEN "kill" ELSE "nokill")]
            /\ UNCHANGED <<pc, exitStatus, exitVia, watcher, events>>
    /\ UNCHANGED <<fsVars, inputVars, cwd, mainVars, cb, restart, waitErr>>

\* Mutant: a watcher error is logged with log.Fatal
ListenErrorFatal ==
    /\ lpc = "select"
    /\ watcher.errors > 0
    /\ Terminate(1, "fatal_watcher")
    /\ hist' = [hist EXCEPT !.logged = @ + 1]
    /\ UNCHANGED <<fsVars, inputVars, cwd, mainVars, cb, restart, childVars>>

\* case err := <-watcher.Error: log.Println(err)
ListenError ==
    /\ lpc = "select"
    /\ watcher.errors > 0
    /\ watcher' = [watcher EXCEPT !.errors = @ - 1]
    /\ hist' = [hist EXCEPT !.logged = @ + 1]
    /\ UNCHANGED <<fsVars, inputVars, cwd, pc, mainVars, cb, restart, lpc, events,
                   childVars, exitVars>>

-----------------------------------------------------------------------------
\* The environment

\* The watcher puts an error on watcher.Error
WatcherError ==
    /\ watcher.open
    /\ hist.errors < MaxErrors
    /\ watcher' = [watcher EXCEPT !.errors = @ + 1]
    /\ hist' = [hist EXCEPT !.errors = @ + 1]
    /\ UNCHANGED <<fsVars, inputVars, cwd, pc, mainVars, cb, restart, lpc, events,
                   childVars, exitVars>>

\* The running program exits on its own
ChildExit ==
    /\ child.status = "running"
    /\ \E c \in ExitCodes : child' = [child EXCEPT !.status = "exited", !.code = c]
    /\ UNCHANGED <<fsVars, inputVars, cwd, pc, mainVars, cb, watchVars, waitErr,
                   exitVars, hist>>

\* modifyFile(t, line, lineNum, filename): the bytes ioutil.WriteFile writes,
\* the file read with line lineNum (from 0) replaced; a file without that
\* line is not written
ModifyFile(f, line, lineNum) ==
    JoinWith([SplitOn(f, "\n", <<>>) EXCEPT ![lineNum + 1] = line], "\n")

\* No restart cycle is in progress: the control loop waits for the child, the
\* restart flag is clear and the listener has nothing left to handle
Idle == pc = "wait" /\ ~restart /\ lpc = "select" /\ events = <<>>

\* The user changes one of the files while goplay watches: a change of its
\* attributes, or the start of modifyFile(t, "q", 1, file), whose
\* ioutil.ReadFile takes the bytes to write back from the file as it is now
\* (the bytes of the script; what another file holds is not part of the
\* state).  A quiet user waits until no restart cycle is in progress
UserChangeOf(files, quiet) ==
    /\ watcher.open
    /\ quiet => Idle
    /\ user.pc = "idle"
    /\ hist.changes < MaxChanges
    /\ \E ev \in files :
        /\ Reported(ev.name)
        /\ hist' = [hist EXCEPT !.changes = @ + 1]
        /\ IF ev.attrib
           THEN /\ Len(events) < MaxQueue
                /\ events' = Append(events, ev)
                /\ UNCHANGED user
           ELSE /\ ev.name = ScriptPath => Len(SplitOn(script, "\n", <<>>)) > 1
                /\ user' = [pc |-> "read", name |-> ev.name,
                            buf |-> IF ev.name = ScriptPath
                                    THEN ModifyFile(script, <<"q">>, 1) ELSE <<>>,
                            obuf |-> IF ev.name = ScriptPath
                                     THEN ModifyFile(orig, <<"q">>, 1) ELSE <<>>]
                /\ UNCHANGED events
    /\ UNCHANGED <<fsVars, cmdline, rcs, orig, run, cwd, pc, mainVars, cb, restart, lpc,
                   watcher, childVars, exitVars>>

\* ioutil.WriteFile, its os.OpenFile with O_TRUNC: the file is empty.  The
\* write waits for room in the queue and is reported if the file is watched
UserTruncate ==
    /\ user.pc = "read"
    /\ Len(events) < MaxQueue
    /\ events' = IF watcher.open /\ Reported(user.name)
                 THEN Append(events, [name |-> user.name, attrib |-> FALSE])
                 ELSE events
    /\ user' = [user EXCEPT !.pc = "trunc"]
    /\ hist' = [hist EXCEPT !.matching = IF Matches(user.name) THEN @ + 1 ELSE @,
                            !.unbuilt = @ \/ Matches(user.name)]
    /\ IF user.name = ScriptPath
       THEN /\ script' = <<>>
            /\ orig' = <<>>
            /\ \E t \in Stamps : scriptMtime' = t /\ clock' = t
       ELSE UNCHANGED <<script, orig, scriptMtime, clock>>
    /\ UNCHANGED <<binExists, binMtime, objExists, cmdline, rcs, run, cwd, pc, mainVars,
                   cb, restart, lpc, watcher, childVars, exitVars>>

\* ioutil.WriteFile, its f.Write(data): the bytes read before, written from
\* the start of the file over what it holds by now
UserWrite ==
    /\ user.pc = "trunc"
    /\ Len(events) < MaxQueue
    /\ events' = IF watcher.open /\ Reported(user.name)
                 THEN Append(events, [name |-> user.name, attrib |-> FALSE])
                 ELSE events
    /\ user' = NoUser
    /\ IF user.name = ScriptPath
       THEN /\ script' = CommentHashbang(script, user.buf)
            /\ orig' = user.obuf
            /\ \E t \in Stamps : scriptMtime' = t /\ clock' = t
            /\ hist' = [hist EXCEPT !.edited = TRUE, !.unbuilt = TRUE]
       ELSE /\ UNCHANGED <<script, orig, scriptMtime, clock>>
            /\ hist' = [hist EXCEPT !.unbuilt = @ \/ Matches(user.name)]
    /\ UNCHANGED <<binExists, binMtime, objExists, cmdline, rcs, run, cwd, pc, mainVars,
                   cb, restart, lpc, watcher, childVars, exitVars>>

UserChange == UserChangeOf(Changes, FALSE)

\* goplay has run the program and is invoked again with the same command
\* line; the user may have saved the script in between
NextRun ==
    /\ pc = "done"
    /\ run < MaxRuns
    /\ ~config.HotReload
    /\ exitVia \in {"exit", "return"}
    /\ run' = run + 1
    /\ \E edit \in BOOLEAN :
        IF edit
        THEN /\ Len(SplitOn(script, "\n", <<>>)) > 1
             /\ script' = ModifyFile(script, <<"q">>, 1)
             /\ orig' = ModifyFile(orig, <<"q">>, 1)
             /\ \E t \in Stamps : scriptMtime' = t /\ clock' = t
             /\ hist' = [hist EXCEPT !.edited = TRUE]
        ELSE /\ UNCHANGED <<script, orig, scriptMtime, clock>>
             /\ UNCHANGED hist
    /\ pc' = "parse"
    /\ cwd' = StartDir(cmdline)
    /\ config' = DefaultConfig
    /\ args' = <<>>
    /\ binary' = NoBinary
    /\ compileNeeded' = FALSE
    /\ seen' = NoSeen
    /\ cb' = NoCb
    /\ restart' = FALSE
    /\ child' = NoChild
    /\ waitErr' = NoErr
    /\ exitStatus' = -1
    /\ exitVia' = ""
    /\ UNCHANGED <<binExists, binMtime, objExists, cmdline, rcs, user, lpc, events,
                   watcher>>

-----------------------------------------------------------------------------

Next ==
    \/ MainParse
    \/ MainMkdir
    \/ MainStale
    \/ CbOpen
    \/ CbCheck
    \/ CbComment
    \/ CbChdir
    \/ CbGoBuild
    \/ CbCompile
    \/ CbLink
    \/ CbRemove
    \/ CbChdirBack
    \/ CbRestore
    \/ RunWatch
    \/ RunWatchFirst
    \/ RunWatchSubdir
    \/ RunStart
    \/ RunAssign
    \/ RunWait
    \/ RunCheck
    \/ RunRestart
    \/ RunClear
    \/ ListenEvent
    \/ ListenKill
    \/ ChildExit
    \/ UserChange
    \/ UserTruncate
    \/ UserWrite
    \/ NextRun

Spec == Init /\ [][Next]_vars

-----------------------------------------------------------------------------
\* The configuration and the binary location on their own: main up to the
\* binary paths, and single calls of ReadConfigurationFile, over a wider
\* range of command lines, configuration files and starting configurations

ConfigCmds ==
    { <<>>,
      <<RelScript>>,
      <<FlagF, AbsScript>>,
      <<FlagB, RelScript, FlagR>>,
      <<FlagR, AbsScript>>,
      <<FlagRR, RelScript>>,
      << <<"-", "f", "=", "f", "a", "l", "s", "e">>, <<"-", "-", "r", "=", "1">>, RelScript>>,
      << <<"-", "f", "=", "f", "a", "l", "s", "e">>, FlagB, AbsScript, FlagF>> }

ConfigFiles ==
    { NoFile,
      Unreadable,
      [present |-> TRUE, readable |-> TRUE, lines |-> <<>>],
      RcLine(<<"F","o","r","c","e","C","o","m","p","i","l","e">>, <<"Y","e","s">>),
      [present |-> TRUE, readable |-> TRUE,
       lines |-> << [key |-> <<"f","o","r","c","e","_","c","o","m","p","i","l","e">>,
                     value |-> <<"t","r","u","e">>],
                    [key |-> <<"F","O","R","C","E","C","O","M","P","I","L","E">>,
                     value |-> <<"N","o"," ">>],
                    [key |-> KeyHotReload, value |-> <<"n", "o">>] >>],
      [present |-> TRUE, readable |-> TRUE,
       lines |-> << [key |-> <<"H","o","t","R","e","l","o","a","d">>, value |-> <<"y", "e", "s">>],
                    [key |-> KeyCompleteBuild, value |-> <<"1">>] >>],
      [present |-> TRUE, readable |-> TRUE,
       lines |-> << [key |-> <<"H","o","t","_","R","e","l","o","a","d","_",
                               "R","e","c","u","r","s","i","v","e">>, value |-> <<"y", "e", "s">>],
                    [key |-> KeyHotReloadWatchExtensions,
                     value |-> <<"g","o",",","h","t","m","l">>] >>],
      [present |-> TRUE, readable |-> TRUE,
       lines |-> << [key |-> <<"G","o","p","l","a","y","D","i","r","e","c","t","o","r","y">>,
                     value |-> <<"/","t","m","p","/","c">>],
                    [key |-> <<"c","o","l","o","r">>, value |-> <<"y", "e", "s">>] >>],
      RcLine(KeyGoplayDirectory, <<"b","i","n","/","x">>) }

\* Configurations a call of ReadConfigurationFile can start from
ConfigStarts ==
    { DefaultConfig,
      [DefaultConfig EXCEPT !.CompleteBuild = TRUE],
      [ForceCompile |-> TRUE, CompleteBuild |-> TRUE, HotReload |-> TRUE,
       HotReloadRecursive |-> TRUE, HotReloadWatchExtensions |-> <<>>,
       GoplayDirectory |-> <<"/", "o">>] }

InitConfig ==
    /\ \/ /\ pc = "parse"
          /\ cmdline \in ConfigCmds
          /\ rcs \in ConfigFiles \X ConfigFiles \X ConfigFiles
          /\ config = DefaultConfig
       \/ /\ pc = "readcfg"
          /\ cmdline = <<RelScript>>
          /\ rcs \in ConfigFiles \X {NoFile} \X {NoFile}
          /\ config \in ConfigStarts
    /\ InitFiles({<<"p", "\n">>}, {1})
    /\ orig = script
    /\ user = NoUser
    /\ objExists = FALSE
    /\ clock = 2
    /\ cwd = StartDir(cmdline)
    /\ run = 1
    /\ args = <<>>
    /\ binary = NoBinary
    /\ compileNeeded = FALSE
    /\ seen = NoSeen
    /\ cb = NoCb
    /\ restart = FALSE
    /\ lpc = "off"
    /\ events = <<>>
    /\ watcher = NoWatcher
    /\ child = NoChild
    /\ waitErr = NoErr
    /\ exitStatus = -1
    /\ exitVia = ""
    /\ hist = NoHist

\* found := ReadConfigurationFile(filename, &config)
CallReadConfigurationFile ==
    /\ pc = "readcfg"
    /\ IF ReadFileFails(rcs[1])
       THEN /\ Terminate(1, "fatal_readcfg")
            /\ UNCHANGED <<config, hist, restart>>
       ELSE /\ config' = ReadConfigurationFile(rcs[1], config)
            /\ hist' = [hist EXCEPT !.read = [called |-> TRUE, before |-> config,
                                               found |-> ReadConfigurationFileFound(rcs[1])]]
            /\ pc' = "returned"
            /\ UNCHANGED <<watchVars, exitVars>>
    /\ UNCHANGED <<fsVars, inputVars, cwd, args, binary, compileNeeded, seen, cb,
                   childVars>>

NextConfig ==
    \/ MainParse
    \/ CallReadConfigurationFile

SpecConfig == InitConfig /\ [][NextConfig]_vars

-----------------------------------------------------------------------------
\* Hot reload on its own: hot-reload invocations over a wider range of watch
\* modes, watched extensions and changed files, with watcher errors


WatchCmds ==
    { <<FlagR, RelScript>>,
      <<FlagRR, RelScript, One>>,
      <<FlagR, FlagB, AbsScript>>,
      <<FlagRR, AbsScript>> }

WatchRcs ==
    { NoRc,
      <<NoFile, RcLine(KeyHotReloadWatchExtensions, <<"h", "t", "m", "l">>), NoFile>> }

InDir(dir, name) == dir \o <<"/">> \o name

\* Files below the script's directory whose changes the watcher can report
WideChanges ==
    { [name |-> AbsScript, attrib |-> FALSE],
      [name |-> AbsScript, attrib |-> TRUE],
      [name |-> InDir(ScriptDir, <<"p", ".", "h", "t", "m", "l">>), attrib |-> FALSE],
      [name |-> InDir(InDir(ScriptDir, <<"d">>), <<"y", ".", "g", "o">>), attrib |-> FALSE],
      [name |-> InDir(InDir(ScriptDir, <<"d">>), RelScript), attrib |-> FALSE],
      [name |-> InDir(InDir(ScriptDir, HiddenDir), <<"h", ".", "g", "o">>), attrib |-> FALSE],
      [name |-> InDir(InDir(InDir(ScriptDir, HiddenDir), <<"o">>), <<"z", ".", "g", "o">>),
       attrib |-> FALSE] }

\* The binary is yet to be built; the clock has reached its bound, so that
\* every write is stamped alike
InitWatch ==
    /\ \/ cmdline \in WatchCmds /\ rcs = NoRc
       \/ cmdline = <<FlagRR, RelScript, One>> /\ rcs \in WatchRcs
    /\ script \in {HASHBANG \o <<"\n", "p">>, <<"p", "\n">>}
    /\ scriptMtime = 1
    /\ binExists = FALSE
    /\ binMtime = 0
    /\ orig = script
    /\ user = NoUser
    /\ objExists = FALSE
    /\ clock = MaxClock
    /\ cwd = StartDir(cmdline)
    /\ run = 1
    /\ pc = "parse"
    /\ config = DefaultConfig
    /\ args = <<>>
    /\ binary = NoBinary
    /\ compileNeeded = FALSE
    /\ seen = NoSeen
    /\ cb = NoCb
    /\ restart = FALSE
    /\ lpc = "off"
    /\ events = <<>>
    /\ watcher = NoWatcher
    /\ child = NoChild
    /\ waitErr = NoErr
    /\ exitStatus = -1
    /\ exitVia = ""
    /\ hist = NoHist

QuietUserChange == UserChangeOf(WideChanges, TRUE)

NextWatch ==
    \/ MainParse
    \/ MainMkdir
    \/ MainStale
    \/ CbOpen
    \/ CbCheck
    \/ CbComment
    \/ CbChdir
    \/ CbGoBuild
    \/ CbCompile
    \/ CbLink
    \/ CbRemove
    \/ CbChdirBack
    \/ CbRestore
    \/ RunWatch
    \/ RunWatchFirst
    \/ RunWatchSubdir
    \/ RunStart
    \/ RunAssign
    \/ RunWait
    \/ RunCheck
    \/ RunRestart
    \/ RunClear
    \/ ListenEvent
    \/ ListenKill
    \/ ListenError
    \/ ChildExit
    \/ QuietUserChange
    \/ UserTruncate
    \/ UserWrite
    \/ WatcherError

SpecWatch == InitWatch /\ [][NextWatch]_vars

-----------------------------------------------------------------------------
\* The binary location on its own: main up to the creation of the binary
\* directory, over a wider range of script names and directories

PathScripts ==
    { RelScript,
      <<"s">>,
      <<"s", ".", "t", "x", "t">>,
      <<"a", ".", "b", ".", "g", "o">>,
      <<"x", ".", "g", "o", "x", ".", "g", "o">>,
      <<".", "/", "s", ".", "g", "o">>,
      <<".", ".", "/", "w", "/", "/", "s", ".", "g", "o">>,
      AbsScript,
      <<"/", "w", "/", "d", "/", "s", ".", "g", "o">>,
      <<"/", "w", "_", "d", "/", "s", ".", "g", "o">> }

PathRcs ==
    { NoRc,
      <<NoFile, RcLine(KeyGoplayDirectory, <<"/", "c">>), NoFile>>,
      <<NoFile, NoFile, RcLine(KeyGoplayDirectory, <<"b", "i", "n">>)>> }

InitPaths ==
    /\ \E name \in PathScripts : cmdline \in {<<name>>, <<FlagF, name, One>>}
    /\ rcs \in PathRcs
    /\ InitFiles({<<"p", "\n">>}, {1})
    /\ orig = script
    /\ user = NoUser
    /\ objExists = FALSE
    /\ clock = 2
    /\ cwd = StartDir(cmdline)
    /\ run = 1
    /\ pc = "parse"
    /\ config = DefaultConfig
    /\ args = <<>>
    /\ binary = NoBinary
    /\ compileNeeded = FALSE
    /\ seen = NoSeen
    /\ cb = NoCb
    /\ restart = FALSE
    /\ lpc = "off"
    /\ events = <<>>
    /\ watcher = NoWatcher
    /\ child = NoChild
    /\ waitErr = NoErr
    /\ exitStatus = -1
    /\ exitVia = ""
    /\ hist = NoHist

\* goplay is invoked again: the script path spelled in any of the ways, from
\* the working directory that goes with it, with any of the configuration
\* files, the binary of an earlier run there or not
InvokeAgain ==
    /\ pc = "stale"
    /\ run < MaxRuns
    /\ run' = run + 1
    /\ \E name \in PathScripts : cmdline' \in {<<name>>, <<FlagF, name, One>>}
    /\ rcs' \in PathRcs
    /\ cwd' = StartDir(cmdline')
    /\ binExists' \in BOOLEAN
    /\ binMtime' = IF binExists' THEN 1 ELSE 0
    /\ pc' = "parse"
    /\ config' = DefaultConfig
    /\ args' = <<>>
    /\ binary' = NoBinary
    /\ UNCHANGED <<script, scriptMtime, objExists, clock, orig, user, compileNeeded,
                   seen, cb, watchVars, childVars, exitVars, hist>>

NextPaths ==
    \/ MainParse
    \/ MainMkdir
    \/ InvokeAgain

SpecPaths == InitPaths /\ [][NextPaths]_vars

-----------------------------------------------------------------------------
\* The goscript variant (goscript.go): main, comment and run

ERROR == 1

GsHashbang == <<"#", "!", "/", "u", "s", "r", "/", "b", "i", "n", "/",
                "g", "o", "s", "c", "r", "i", "p", "t">>
FlagShared == <<"-", "s", "h", "a", "r", "e", "d">>

GsCmds == { <<>>, <<RelScript>>, <<FlagShared, RelScript>> }

GsScripts ==
    { GsHashbang \o <<"\n", "p">>,
      <<"p", "\n", "q">>,
      <<"p">> }

InitGoscript ==
    /\ cmdline \in GsCmds
    /\ rcs = NoRc
    /\ InitFiles(GsScripts, 1..2)
    /\ orig = script
    /\ user = NoUser
    /\ objExists = FALSE
    /\ clock = 2
    /\ cwd = ScriptDir
    /\ run = 1
    /\ pc = "gs_parse"
    /\ config = DefaultConfig
    /\ args = <<>>
    /\ binary = NoBinary
    /\ compileNeeded = FALSE
    /\ seen = NoSeen
    /\ cb = NoCb
    /\ restart = FALSE
    /\ lpc = "off"
    /\ events = <<>>
    /\ watcher = NoWatcher
    /\ child = NoChild
    /\ waitErr = NoErr
    /\ exitStatus = -1
    /\ exitVia = ""
    /\ hist = NoHist

\* What no step of goscript touches
gsFrame == <<inputVars, cwd, config, compileNeeded, restart, waitErr, hist>>

\* The control stays in main: the process does not exit
GsGoOn(next) ==
    /\ pc' = next
    /\ UNCHANGED <<exitVars, lpc, watcher, events>>

\* comment(filename, ok): what the file holds after file.Write at offset 0
Comment(f, ok) == CommentHashbang(f, IF ok THEN Slashes ELSE HashBangPrefix)

\* flag.Parse, the usage text without an argument, and the binary paths
GsParse ==
    /\ pc = "gs_parse"
    /\ LET shared == cmdline # <<>> /\ Head(cmdline) = FlagShared
           rest == IF shared THEN Tail(cmdline) ELSE cmdline
       IN  IF rest = <<>>
           THEN /\ Terminate(ERROR, "usage")
                /\ UNCHANGED <<args, binary>>
           ELSE LET scriptPath == Head(rest)
                    scriptDir == SplitPath(scriptPath).dir
                    scriptName == SplitPath(scriptPath).file
                    binaryDir == IF ~shared
                                 THEN Join(<<scriptDir, <<".", "g", "o">> >>)
                                 ELSE Join(<<scriptDir, <<".", "g", "o">>, ToolTag>>)
                IN  /\ args' = rest
                    /\ binary' = [dir |-> binaryDir,
                                   path |-> Join(<<binaryDir,
                                                   RemoveFirst(scriptName, Ext(scriptName))>>)]
                    /\ GsGoOn("gs_mkdir")
    /\ UNCHANGED <<fsVars, gsFrame, seen, cb, child>>

\* Check directory: os.MkdirAll(binaryDir, 0750)
GsMkdir ==
    /\ pc = "gs_mkdir"
    /\ \/ GsGoOn("gs_stale")
       \/ Terminate(ERROR, "gs_mkdir")
    /\ UNCHANGED <<fsVars, gsFrame, args, binary, seen, cb, child>>

\* scriptMtime := getTime(scriptPath); the executable exists and the script
\* has not been modified since
GsStale ==
    /\ pc = "gs_stale"
    /\ \/ /\ seen' = [checked |-> TRUE, force |-> FALSE, exists |-> binExists,
                      st |-> scriptMtime, bt |-> binMtime]
          /\ GsGoOn(IF binExists /\ scriptMtime <= binMtime
                    THEN "gs_cached" ELSE "gs_comment")
       \/ \* _time: os.Stat fails, os.Exit(ERROR)
          /\ Terminate(ERROR, "gs_stat")
          /\ UNCHANGED seen
    /\ UNCHANGED <<fsVars, gsFrame, args, binary, cb, child>>

\* run(binary): cmd.Start and cmd.Wait; an error exits, otherwise run returns
Run(next) ==
    \/ \E c \in ExitCodes :
           /\ child' = [id |-> child.id + 1, status |-> "exited", code |-> c, args |-> <<>>,
                        cmd |-> child.id + 1]
           /\ IF c # 0 THEN Terminate(ERROR, "gs_run") ELSE next
    \/ \* cmd.Start() returns an error
       /\ Terminate(ERROR, "gs_start")
       /\ UNCHANGED child

\* run(binaryPath) of the executable found
GsRunCached ==
    /\ pc = "gs_cached"
    /\ Run(GsGoOn("gs_comment"))
    /\ UNCHANGED <<fsVars, gsFrame, args, binary, seen, cb>>

\* comment(scriptPath, true)
GsComment ==
    /\ pc = "gs_comment"
    /\ \/ \E t \in Stamps :
            /\ script' = Comment(script, TRUE)
            /\ scriptMtime' = t
            /\ clock' = t
            /\ cb' = [cb EXCEPT !.active = TRUE, !.commented = TRUE]
            /\ GsGoOn("gs_toolchain")
       \/ /\ Terminate(ERROR, "gs_write")
          /\ UNCHANGED <<script, scriptMtime, clock, cb>>
    /\ UNCHANGED <<binExists, binMtime, objExists, gsFrame, args, binary, seen, child>>

\* compiler, linker, archExt := toolchain()
GsToolchain ==
    /\ pc = "gs_toolchain"
    /\ \/ GsGoOn("gs_compile")
       \/ Terminate(ERROR, "gs_toolchain")
    /\ UNCHANGED <<fsVars, gsFrame, args, binary, seen, cb, child>>

\* Compile source file: cmd.CombinedOutput()
GsCompile ==
    /\ pc = "gs_compile"
    /\ \/ objExists' = TRUE /\ UNCHANGED cb
       \/ cb' = [cb EXCEPT !.fail = "compile"] /\ UNCHANGED objExists
    /\ GsGoOn("gs_uncomment")
    /\ UNCHANGED <<script, scriptMtime, binExists, binMtime, clock, gsFrame, args,
                   binary, seen, child>>

\* comment(scriptPath, false), then the exit on a compiler error
GsUncomment ==
    /\ pc = "gs_uncomment"
    /\ \/ \E t \in Stamps :
            /\ script' = Comment(script, FALSE)
            /\ scriptMtime' = t
            /\ clock' = t
            /\ cb' = [cb EXCEPT !.restores = @ + 1]
            /\ IF cb.fail # "" THEN Terminate(ERROR, "gs_compile") ELSE GsGoOn("gs_link")
       \/ /\ Terminate(ERROR, "gs_write")
          /\ UNCHANGED <<script, scriptMtime, clock, cb>>
    /\ UNCHANGED <<binExists, binMtime, objExists, gsFrame, args, binary, seen, child>>

\* Link executable
GsLink ==
    /\ pc = "gs_link"
    /\ \/ \E t \in Stamps :
            /\ binExists' = TRUE
            /\ binMtime' = t
            /\ clock' = t
            /\ cb' = [cb EXCEPT !.ended = "returned", !.active = FALSE]
            /\ GsGoOn("gs_run")
       \/ /\ Terminate(ERROR, "gs_link")
          /\ cb' = [cb EXCEPT !.fail = "link"]
          /\ UNCHANGED <<binExists, binMtime, clock>>
    /\ UNCHANGED <<script, scriptMtime, objExists, gsFrame, args, binary, seen, child>>

\* setTime (which changes nothing on disk), run(binaryPath), and the return
\* of main
GsRunBuilt ==
    /\ pc = "gs_run"
    /\ \/ Run(Terminate(0, "return"))
       \/ \* setTime: os.Stat fails in _time, os.Exit(ERROR)
          /\ Terminate(ERROR, "gs_stat")
          /\ UNCHANGED child
    /\ UNCHANGED <<fsVars, gsFrame, args, binary, seen, cb>>

NextGoscript ==
    \/ GsParse
    \/ GsMkdir
    \/ GsStale
    \/ GsRunCached
    \/ GsComment
    \/ GsToolchain
    \/ GsCompile
    \/ GsUncomment
    \/ GsLink
    \/ GsRunBuilt

SpecGoscript == InitGoscript /\ [][NextGoscript]_vars

-----------------------------------------------------------------------------
\* Claims

CbPcs == {"cb_open", "cb_check", "cb_comment", "cb_chdir", "cb_gobuild", "cb_compile",
          "cb_link", "cb_remove", "cb_back", "cb_restore"}

\* C1: run twice without -f, without configuration files and without the user
\* touching the script, the first run having built: the second run finds the
\* binary fresh and does not build
C1_SecondRunIsCacheHit ==
    (/\ run = 2
     /\ hist.built1
     /\ ~hist.edited
     /\ rcs = NoRc
     /\ ~FlagParse(cmdline, NoFlags).flags.f)
    => ~compileNeeded

C2_RestoredOnce ==
    /\ cb.restores <= 1
    /\ (cb.commented /\ cb.ended # "" /\ exitVia # "fatal_write_restore")
       => cb.restores = 1

C2_RestoreStep ==
    (pc = "cb_restore" /\ pc' # pc /\ cb.commented /\ exitVia' # "fatal_write_restore")
    => (/\ cb.restores = 0
        /\ cb'.restores = 1
        /\ SubSeq(script', 1, 2) = HashBangPrefix
        /\ cb'.ended # "")

\* C2: once CompileBinary has commented the hashbang out, it restores it
\* exactly once before it returns or the process terminates, whichever step
\* of the build failed: the step that ends the call writes "#!" over the
\* first two bytes, and no call ends without it
C2_RestoredOnEveryPath == [] C2_RestoredOnce /\ [][C2_RestoreStep]_vars

C2_Witness ==
    /\ pc = "done"
    /\ exitVia = "fatal_build"
    /\ cb.commented
    /\ cb.fail = "chdir_back"
    /\ cb.restores = 1

\* The round trip of the two functions on the file as it is, and, in a run
\* without a change by the user, on the file of the run
C3_RoundTrip ==
    LET n == Len(HASHBANG)
        firstLineIsHashbang ==
            /\ Len(orig) >= n
            /\ SubSeq(orig, 1, n) = HASHBANG
            /\ Len(orig) > n => orig[n + 1] = "\n"
        commentedOut == cb.commented /\ cb.restores = 0
    IN  /\ CheckForHashbang(script) =>
              /\ ~CheckForHashbang(CommentHashbang(script, Slashes))
              /\ CommentHashbang(CommentHashbang(script, Slashes), HashBangPrefix) = script
        /\ hist.changes = 0 =>
              IF firstLineIsHashbang
              THEN /\ commentedOut => (~CheckForHashbang(script) /\ script # orig)
                   /\ ~commentedOut => (script = orig /\ CheckForHashbang(script))
              ELSE script = orig /\ ~cb.commented

\* In every run, the user's saves included: the write of "//" leaves a file
\* without the hashbang, whatever the file has become since the check, and
\* the write of "#!" into the user's bytes with the hashbang commented out
\* gives the user's bytes back
C3_WriteSteps ==
    /\ (pc = "cb_comment" /\ cb'.commented)
       => (cb.hasHashbang /\ ~cb.commented /\ ~CheckForHashbang(script'))
    /\ (/\ pc = "cb_restore"
        /\ cb'.restores = cb.restores + 1
        /\ CheckForHashbang(orig)
        /\ script = CommentHashbang(orig, Slashes))
       => (script' = orig /\ CheckForHashbang(script'))

\* The check finds no hashbang exactly in a file whose first line is not the
\* hashbang, and no step of a build that has found none writes the script
C3_PlainStep ==
    /\ (pc = "cb_check" /\ pc' \in CbPcs \ {"cb_check"})
       => cb'.hasHashbang = CheckForHashbang(script)
    /\ (pc \in CbPcs /\ pc' # pc /\ ~cb'.hasHashbang) => script' = script

\* C3: a script whose first line is the hashbang has no hashbang while it is
\* commented out and is byte-identical to the original once it is restored; a
\* build of a script whose first line is not the hashbang does not modify it
C3_HashbangRoundTrip ==
    [] C3_RoundTrip /\ [][C3_WriteSteps]_vars /\ [][C3_PlainStep]_vars

C3_Witness ==
    /\ orig = HASHBANG \o <<"\n", "p">>
    /\ cb.ended = "returned"
    /\ cb.commented
    /\ cb.restores = 1
    /\ script = orig
    /\ CheckForHashbang(script)

\* C4: force off and a binary present: the build is needed, and is started,
\* exactly if the script's modification time is strictly after the binary's
C4_StrictlyNewerBuilds ==
    (seen.checked /\ ~seen.force /\ seen.exists)
    => /\ compileNeeded <=> seen.st > seen.bt
       /\ (pc = "cb_open" /\ cb.ret = "watch") => seen.st > seen.bt
       /\ (pc = "watch" /\ cb = NoCb) => seen.st <= seen.bt

C4_Witness ==
    /\ seen.checked /\ ~seen.force /\ seen.exists
    /\ seen.st = seen.bt
    /\ pc = "watch"
    /\ cb = NoCb
    /\ ~compileNeeded

\* C5: without a binary the build is needed, and is started, whatever the
\* force flag and the script's timestamp are
C5_NoBinaryBuilds ==
    (seen.checked /\ ~seen.exists)
    => /\ compileNeeded
       /\ pc # "watch" \/ cb.ended = "returned"

C5_Witness ==
    /\ seen.checked /\ ~seen.exists /\ ~seen.force
    /\ compileNeeded
    /\ pc = "cb_open"

\* C6: with force-compile set in the resolved configuration the build is
\* needed, and is started, also when the binary is newer than the script
C6_ForceBuilds ==
    (seen.checked /\ seen.force)
    => /\ compileNeeded
       /\ pc # "watch" \/ cb.ended = "returned"

C6_Witness ==
    /\ seen.checked /\ seen.force /\ seen.exists
    /\ seen.bt > seen.st
    /\ compileNeeded
    /\ pc = "cb_open"

\* C7: when the supervisor loop ends on a child that exited on its own, goplay
\* exits with that child's exit code, 0 for a clean exit
C7_ExitStatusPropagated ==
    (pc = "done" /\ exitVia \in {"exit", "return"} /\ child.status = "exited")
    => exitStatus = child.code

C7_Witness ==
    /\ pc = "done"
    /\ child.id = 2
    /\ child.status = "exited"
    /\ child.code = 3
    /\ exitStatus = 3

\* The position of the script path on the command line
ScriptIndex == CHOOSE i \in 1..Len(cmdline) : cmdline[i] \in {RelScript, AbsScript}

\* C8: every child is started with exactly the tokens that follow the script
\* path, and the configuration is what the tokens up to the script path give
C8_ArgsPassedUnchanged ==
    /\ child.id > 0 => child.args = SubSeq(cmdline, ScriptIndex + 1, Len(cmdline))
    /\ (pc \notin {"parse", "done"})
       => config = ResolveConfig(rcs,
                      FlagParse(SubSeq(cmdline, 1, ScriptIndex), NoFlags).flags)

C8_Witness ==
    /\ child.id = 2
    /\ child.status = "running"
    /\ child.args = <<FlagF>>
    /\ cmdline = <<FlagRR, FlagB, AbsScript, FlagF>>

\* The cycle of an event the listener accepted while the control loop waited
\* on a running child: the listener's Kill (on a child that may just have
\* exited), the build and the start come in this order, and goplay does not
\* terminate in the middle of it
C9_CycleStages ==
    (restart /\ hist.live)
    => /\ \E k \in {"kill", "nokill"} :
            hist.cycle \in {<<>>, <<k>>, <<k, "build">>, <<k, "build", "start">>}
       /\ pc # "done"

\* The rebuild does not consult the timestamps, and the cycle ends with the
\* flag cleared and the control loop waiting on the new child
C9_CycleSteps ==
    /\ (pc = "check" /\ restart /\ pc' # pc) => pc' = "cb_open"
    /\ (pc = "sleep" /\ pc' # pc /\ pc' # "done") => (pc' = "wait" /\ ~restart' /\ child' = child)

\* C9: an event accepted while a child is running and no restart is pending
\* is followed by the kill of that child, then the rebuild (whatever the
\* timestamps), then the start of a new child, and the control loop returns
\* to waiting with the flag cleared
C9_KillRebuildStart == [] C9_CycleStages /\ [][C9_CycleSteps]_vars

\* C10: an event the listener takes from the queue while the restart flag is
\* set changes nothing: no kill, no rebuild, no restart
C10_Coalesced ==
    [][(/\ lpc = "select"
        /\ lpc' # "off"
        /\ restart
        /\ events # <<>>
        /\ events' = Tail(events))
       => (/\ lpc' = "select"
           /\ restart' = restart
           /\ child' = child
           /\ pc' = pc
           /\ cb' = cb
           /\ hist'.cycle = hist.cycle)]_vars

C10_Witness ==
    /\ hist.coalesced
    /\ restart
    /\ lpc = "select"
    /\ pc = "sleep"
    /\ hist.cycle = <<"kill", "build", "start">>

\* C11: the supervisor loop ends only on a child that exited on its own while
\* no restart was pending, and goplay then reports that child's exit status
C11_LoopEndsOnOwnExitOnly ==
    (pc = "done" /\ exitVia \in {"exit", "return"})
    => (child.status = "exited" /\ ~restart /\ exitStatus = child.code)

\* C12: goplay never exits with the status of a child the listener killed
C12_KillNeverSurfaced ==
    ~(pc = "done" /\ exitVia \in {"exit", "return"} /\ child.status = "killed")

-----------------------------------------------------------------------------
\* What a configuration file says, read off its lines

\* The file has a line for the key, whatever the case and the underscores
GivenKey(file, k) ==
    /\ file.present
    /\ \E i \in 1..Len(file.lines) : RemoveUnderscores(ToLower(file.lines[i].key)) = k

\* The value of the last line for the key
GivenValue(file, k) ==
    LET is(i) == RemoveUnderscores(ToLower(file.lines[i].key)) = k
        last == CHOOSE i \in 1..Len(file.lines) :
                    is(i) /\ \A j \in (i + 1)..Len(file.lines) : ~is(j)
    IN  ToLower(TrimBlanks(file.lines[last].value))

\* The configuration file of highest precedence that has the key, or 0
TopFile(k) ==
    IF \E i \in 1..3 : GivenKey(rcs[i], k)
    THEN CHOOSE i \in 1..3 : GivenKey(rcs[i], k) /\ \A j \in (i + 1)..3 : ~GivenKey(rcs[j], k)
    ELSE 0

IsYes(v) == v \in { <<"y","e","s">>, <<"t","r","u","e">>, <<"1">>, <<"t">> }

\* The value the configuration files give a setting, or its default
FromFiles(k, default) ==
    IF TopFile(k) = 0 THEN default ELSE GivenValue(rcs[TopFile(k)], k)
BoolFromFiles(k) == TopFile(k) # 0 /\ IsYes(GivenValue(rcs[TopFile(k)], k))

\* The flag is switched on by a token in front of the script path
SwitchedOn(name) ==
    \E i \in 1..Len(cmdline) :
        /\ \A j \in 1..i : cmdline[j] \notin {RelScript, AbsScript}
        /\ cmdline[i] \in { <<"-", name>>, <<"-", "-", name, "=", "1">> }

\* C13: every setting has the value of the source of highest precedence that
\* gives it: a flag that is switched on, else the last of the three files
\* that has the key, else the default
C13_Precedence ==
    pc = "mkdir" =>
        /\ config.ForceCompile =
              (SwitchedOn("f") \/ SwitchedOn("r") \/ SwitchedOn("R")
               \/ BoolFromFiles(KeyForceCompile))
        /\ config.CompleteBuild = (SwitchedOn("b") \/ BoolFromFiles(KeyCompleteBuild))
        /\ config.HotReload =
              (SwitchedOn("r") \/ SwitchedOn("R") \/ BoolFromFiles(KeyHotReload))
        /\ config.HotReloadRecursive =
              (SwitchedOn("R") \/ BoolFromFiles(KeyHotReloadRecursive))
        /\ config.GoplayDirectory =
              FromFiles(KeyGoplayDirectory, <<".", "g", "o", "p", "l", "a", "y">>)
        /\ config.HotReloadWatchExtensions =
              (IF TopFile(KeyHotReloadWatchExtensions) = 0 THEN << <<"g", "o">> >>
               ELSE SplitOn(FromFiles(KeyHotReloadWatchExtensions, <<>>), ",", <<>>))

C13_Witness ==
    /\ pc = "mkdir"
    /\ cmdline = <<FlagB, RelScript, FlagR>>
    /\ GivenKey(rcs[1], KeyForceCompile) /\ IsYes(GivenValue(rcs[1], KeyForceCompile))
    /\ GivenKey(rcs[2], KeyGoplayDirectory)
    /\ GivenKey(rcs[3], KeyForceCompile) /\ ~IsYes(GivenValue(rcs[3], KeyForceCompile))
    /\ ~config.ForceCompile
    /\ config.CompleteBuild
    /\ ~config.HotReload
    /\ config.GoplayDirectory = <<"/", "t", "m", "p", "/", "c">>

\* C14: -R switches on recursive hot reload, hot reload and force compile, -r
\* switches on hot reload and force compile, whatever the files say
C14_FlagImplications ==
    pc = "mkdir" =>
        /\ SwitchedOn("R") =>
              (config.HotReloadRecursive /\ config.HotReload /\ config.ForceCompile)
        /\ SwitchedOn("r") => (config.HotReload /\ config.ForceCompile)

C14_Witness ==
    /\ pc = "mkdir"
    /\ cmdline = <<FlagRR, RelScript>>
    /\ GivenKey(rcs[3], KeyHotReload) /\ ~IsYes(GivenValue(rcs[3], KeyHotReload))
    /\ GivenKey(rcs[3], KeyForceCompile) /\ ~IsYes(GivenValue(rcs[3], KeyForceCompile))
    /\ config.HotReloadRecursive /\ config.HotReload /\ config.ForceCompile

\* C15: in hot-reload mode compilation is forced, so the first run builds
C15_HotReloadForcesCompile ==
    (seen.checked /\ (config.HotReload \/ config.HotReloadRecursive))
    => (config.HotReload /\ config.ForceCompile /\ compileNeeded)

\* C16: ReadConfigurationFile reports whether the file exists, sets the
\* fields whose keys the file has to the file's values and leaves every
\* other field as it was
C16_ReadFrame ==
    pc = "returned" =>
        LET file == rcs[1]
            before == hist.read.before
            bool(k, old) == IF GivenKey(file, k) THEN IsYes(GivenValue(file, k)) ELSE old
        IN  /\ hist.read.found = file.present
            /\ config.ForceCompile = bool(KeyForceCompile, before.ForceCompile)
            /\ config.CompleteBuild = bool(KeyCompleteBuild, before.CompleteBuild)
            /\ config.HotReload = bool(KeyHotReload, before.HotReload)
            /\ config.HotReloadRecursive =
                  bool(KeyHotReloadRecursive, before.HotReloadRecursive)
            /\ config.GoplayDirectory =
                  (IF GivenKey(file, KeyGoplayDirectory)
                   THEN GivenValue(file, KeyGoplayDirectory) ELSE before.GoplayDirectory)
            /\ config.HotReloadWatchExtensions =
                  (IF GivenKey(file, KeyHotReloadWatchExtensions)
                   THEN SplitOn(GivenValue(file, KeyHotReloadWatchExtensions), ",", <<>>)
                   ELSE before.HotReloadWatchExtensions)
            /\ ~file.present => config = before

C16_Witness ==
    /\ pc = "returned"
    /\ hist.read.found
    /\ hist.read.before.ForceCompile /\ hist.read.before.HotReload
    /\ GivenKey(rcs[1], <<"f","o","r","c","e","c","o","m","p","i","l","e">>)
    /\ Len(rcs[1].lines) = 3
    /\ ~config.ForceCompile
    /\ ~config.HotReload
    /\ config.CompleteBuild
    /\ config.GoplayDirectory = <<"/", "o">>

FatalExits == {"fatal_abs", "fatal_readcfg", "fatal_mkdir", "fatal_stat", "fatal_open", "fatal_read",
               "fatal_write", "fatal_build", "fatal_close",
               "fatal_write_restore"}

\* C17: a failing setup step or a failing first build ends goplay with a
\* status other than 0, and no child is started in that run
C17_FailureIsFatal ==
    /\ exitVia \in FatalExits => (pc = "done" /\ exitStatus = 1)
    /\ exitVia \in {"fatal_abs", "fatal_readcfg", "fatal_mkdir", "fatal_stat"}
       => (child.id = 0 /\ cb = NoCb)
    /\ (cb.ret = "watch" /\ (cb.fail # "" \/ cb.ended = "fatal"))
       => (child.id = 0 /\ (pc = "done" => exitStatus = 1))

C17_Witness ==
    /\ pc = "done"
    /\ exitVia = "fatal_build"
    /\ cb.ret = "watch"
    /\ cb.fail = "compile"
    /\ seen.exists /\ binExists
    /\ child.id = 0
    /\ exitStatus = 1

\* C18: without a script argument goplay ends through usage with status 1 in
\* its first step, and nothing else changes: no configuration, no file, no
\* build, no child
C18_UsageOnly ==
    [][(pc = "parse" /\ \A i \in 1..Len(cmdline) : cmdline[i] \notin {RelScript, AbsScript})
       => (/\ pc' = "done"
           /\ exitVia' = "usage"
           /\ exitStatus' = 1
           /\ UNCHANGED <<fsVars, cwd, config, binary, cb, child, hist>>
           /\ cb' = NoCb /\ child' = NoChild /\ config' = DefaultConfig)]_vars

C18_Witness ==
    /\ cmdline = <<FlagF>>
    /\ pc = "done"
    /\ exitVia = "usage"
    /\ exitStatus = 1
    /\ child = NoChild

\* C19: a later invocation for the same script path that resolves the same
\* configuration computes the binary directory and path of the first one,
\* whatever the spelling of the path on the command line, the working
\* directory, the configuration files and the state of the file system are
C19_LocationDeterministic ==
    (/\ run > 1
     /\ binary # NoBinary
     /\ ScriptPath = hist.script1
     /\ config = hist.config1)
    => binary = hist.binary1

C19_Witness ==
    /\ run = 2
    /\ pc = "mkdir"
    /\ cmdline = <<AbsScript>>
    /\ cwd = OtherDir
    /\ hist.cwd1 = ScriptDir
    /\ binExists
    /\ ScriptPath = hist.script1
    /\ config = hist.config1
    /\ config.GoplayDirectory = <<"b", "i", "n">>
    /\ binary = hist.binary1
    /\ binary.path = <<"/", "w", "/", "b", "i", "n", "/">> \o ToolTag \o <<"/", "s">>

\* C20 as amended: with an absolute goplay directory the binary directory is
\* <goplay directory>/<script path with "/" replaced by "_">/<tool tag>, with
\* a relative one <script directory>/<goplay directory>/<tool tag>
C20_BinaryDirRule ==
    pc = "mkdir" =>
        IF config.GoplayDirectory[1] = "/"
        THEN binary.dir = config.GoplayDirectory
                          \o <<"/", "_", "w", "_", "s", ".", "g", "o", "/">> \o ToolTag
        ELSE binary.dir = ScriptDir \o <<"/">> \o config.GoplayDirectory
                          \o <<"/">> \o ToolTag

C20_Witness ==
    /\ pc = "mkdir"
    /\ cmdline = <<FlagB, RelScript, FlagR>>
    /\ config.GoplayDirectory = <<"/", "t", "m", "p", "/", "c">>
    /\ binary.dir = <<"/","t","m","p","/","c","/","_","w","_","s",".","g","o","/">>
                     \o ToolTag

\* C20 as stated: with an absolute goplay directory the middle element is the
\* script's directory with "/" replaced by "_"
C20_BinaryDirOfScriptDir ==
    pc = "mkdir" =>
        IF config.GoplayDirectory[1] = "/"
        THEN \/ binary.dir = config.GoplayDirectory \o <<"/", "_", "w", "/">> \o ToolTag
             \/ binary.dir = config.GoplayDirectory \o <<"/", "_", "w", "_", "/">> \o ToolTag
        ELSE binary.dir = ScriptDir \o <<"/">> \o config.GoplayDirectory
                          \o <<"/">> \o ToolTag



\* C21: the listener sets the restart flag for an event only if the event is
\* not attribute-only and names the script file itself or a file whose
\* extension is in the watched-extension set; for every other event the
\* restart flag, the child and the listener's position stay as they are
C21_RestartOnlyForScriptOrExtension ==
    [][ListenEvent =>
        LET event == Head(events)
            e == Ext(event.name)
            fileExtension == IF e # <<>> /\ e[1] = "." THEN Tail(e) ELSE e
            ofInterest ==
                /\ ~event.attrib
                /\ \/ event.name = ScriptPath
                   \/ \E i \in 1..Len(config.HotReloadWatchExtensions) :
                        config.HotReloadWatchExtensions[i] = fileExtension
        IN  /\ restart' # restart => ofInterest
            /\ ~ofInterest => restart' = restart /\ child' = child /\ lpc' = lpc]_vars

\* The directories below dir that are not hidden and not inside a hidden
\* directory
RECURSIVE VisibleBelow(_)
VisibleBelow(dir) ==
    LET entries == DirEntries(dir)
        shown == {i \in 1..Len(entries) :
                    entries[i].isDir /\ entries[i].name[1] # "."}
    IN  UNION {{dir \o <<"/">> \o entries[i].name} \cup
               VisibleBelow(dir \o <<"/">> \o entries[i].name) : i \in shown}

\* C22: once the watch is established, the watch set is the script file
\* alone when neither whole-directory nor recursive mode is active, and
\* otherwise the script's directory together with, recursively, its
\* non-hidden subdirectories
C22_WatchSetIsScriptOrTree ==
    (watcher.open /\ pc \notin {"towatch", "subdirs"}) =>
        watcher.watches =
            IF config.CompleteBuild \/ config.HotReloadRecursive
            THEN {Dir(ScriptPath)} \cup VisibleBelow(Dir(ScriptPath))
            ELSE {ScriptPath}

\* C23: GetSubdirectories, called for the recursive watch, has returned every
\* directory below the script's directory that is not hidden, and neither
\* the start directory nor a hidden directory nor a directory inside a
\* hidden directory
C23_SubdirectoriesSkipHidden ==
    (watcher.open /\ config.HotReloadRecursive /\ pc \notin {"towatch", "subdirs"}) =>
        LET returned == watcher.watches \ {Dir(ScriptPath)} IN
        /\ VisibleBelow(Dir(ScriptPath)) \subseteq returned
        /\ \A p \in returned :
              /\ p # Dir(ScriptPath)
              /\ \A i \in 1..Len(p) :
                    (p[i] = "." /\ i > 1 /\ p[i - 1] = "/") => i <= Len(Dir(ScriptPath))

\* C24: in recursive hot-reload mode, matching changes that each arrive
\* after the previous restart cycle has completed cause one restart cycle
\* each: whenever no cycle is in progress, the children started are one more
\* than the matching changes made; and goplay exits with status 0 when the
\* last child has exited cleanly on its own
C24_OneCyclePerChange ==
    config.HotReloadRecursive =>
        /\ Idle => child.id = hist.matching + 1
        /\ (pc = "done" /\ exitVia \in {"exit", "return"} /\ child.status = "exited"
               /\ child.code = 0) => exitStatus = 0

\* C25: every setting of the restart flag by the listener is followed by
\* exactly one rebuild: while the flag is set and the control loop has not yet
\* seen it, the accepted events are one more than the hot-reload rebuilds; in
\* every other state of the running process the two numbers are equal, so
\* the loop never rebuilds without an accepted event
C25_OneRebuildPerAcceptedEvent ==
    /\ hist.rebuilds <= hist.accepted
    /\ hist.accepted <= hist.rebuilds + 1
    /\ pc # "done" =>
          hist.accepted =
              hist.rebuilds +
                  (IF restart /\ pc \in {"towatch", "subdirs", "start", "assign", "wait", "check"}
                   THEN 1 ELSE 0)

\* C25 witness: two events have been accepted and two rebuilds have run, and
\* the third child is waited for with the flag clear
C25_Witness ==
    /\ hist.accepted = 2
    /\ hist.rebuilds = 2
    /\ child.id = 3
    /\ pc = "wait"
    /\ ~restart

\* C26: no build runs while a supervised child is alive, and a child is
\* started only when the previous child is no longer alive and no build is
\* under way: the rebuild starts after the wait on the previous child has
\* returned, the new child after the rebuild has finished
C26_BuildAndChildExclusive ==
    /\ [](cb.active => child.status # "running")
    /\ [][child'.status = "running" /\ child'.id # child.id =>
            /\ child.status # "running"
            /\ ~cb.active
            /\ child'.id = child.id + 1
            /\ child.id > 0 => (pc = "rstart" /\ cb.ended = "returned")]_vars

\* C26 witness: the rebuild of a reload is under way after the first child
\* was killed
C26_Witness ==
    /\ cb.active
    /\ cb.ret = "rstart"
    /\ pc = "cb_link"
    /\ child.id = 1
    /\ child.status = "killed"

\* C27: a single-file build compiles, links and then deletes the object
\* file; a compile or link failure aborts the build; once the build has ended,
\* the object file is left behind only when its deletion has failed
C27_ObjectLeftOnlyIfRemoveFails ==
    ~cb.goBuild =>
        /\ pc = "cb_link" => objExists
        /\ pc = "cb_remove" => objExists /\ binExists
        /\ cb.fail \in {"compile", "link"} => pc \in {"cb_restore", "done"}
        /\ (cb.ended # "" /\ objExists) => cb.fail = "remove"

\* C28: in whole-directory mode the working directory is back to what it was
\* before the call when CompileBinary comes to restore the hashbang and when
\* it has ended, whether 'go build' succeeded or failed (the chdir back itself
\* not failing)
C28_WorkingDirectoryRestored ==
    (cb.goBuild /\ cb.fail # "chdir_back" /\ (pc = "cb_restore" \/ cb.ended # "")) =>
        cwd = StartDir(cmdline)

\* C28 witness: 'go build' has failed in the script's directory and goplay
\* has ended in the directory it was started in
C28_Witness ==
    /\ cb.goBuild
    /\ cb.chdir
    /\ cb.fail = "gobuild"
    /\ cb.ended = "fatal"
    /\ cb.prevDir = OtherDir
    /\ cwd = OtherDir

\* C29: in hot-reload mode a toolchain failure of a rebuild on reload does
\* not end goplay: the process goes on and keeps watching
C29_RebuildFailureSurvived ==
    (config.HotReload /\ cb.ret = "rstart"
       /\ cb.fail \in {"gobuild", "archchar", "compile", "link"}
       /\ cb.ended # "") =>
        /\ pc # "done"
        /\ watcher.open
        /\ lpc # "off"

\* C30: a watcher error taken from the error channel is logged and nothing
\* else: the restart flag, the child, the listener's position, the control
\* loop, the queued events and the files stay as they are
C30_WatcherErrorOnlyLogged ==
    [][ListenError =>
        /\ hist'.logged = hist.logged + 1
        /\ watcher'.errors = watcher.errors - 1
        /\ lpc' = "select"
        /\ watcher'.open /\ watcher'.watches = watcher.watches
        /\ UNCHANGED <<restart, child, waitErr, pc, events, cb, exitStatus, exitVia,
                       fsVars, cwd>>]_vars

\* C30 witness: a watcher error has been logged while the first child runs;
\* the loop still waits, the listener still listens and restart is clear
C30_Witness ==
    /\ hist.logged = 1
    /\ watcher.errors = 0
    /\ watcher.open
    /\ lpc = "select"
    /\ pc = "wait"
    /\ child.id = 1
    /\ child.status = "running"
    /\ ~restart
    /\ hist.accepted = 0

\* C31: the script keeps its length and differs from the original in its
\* first two bytes at most; it differs only while a build is in progress (the
\* restoring write itself not failing) and only when its first line is
\* exactly the hashbang
C31_OnlyFirstTwoBytesDuringBuild ==
    LET n == Len(HASHBANG) IN
    /\ Len(script) = Len(orig)
    /\ \A i \in 3..Len(orig) : script[i] = orig[i]
    /\ script # orig =>
          /\ Len(orig) >= n
          /\ SubSeq(orig, 1, n) = HASHBANG
          /\ Len(orig) > n => orig[n + 1] = "\n"
          /\ \/ cb.active /\ pc \in CbPcs
             \/ exitVia = "fatal_write_restore"

\* C32: the binary file name is the script's base name without its trailing
\* extension: the name up to its last dot, the whole name when it has no dot
C32_TrailingExtensionStripped ==
    pc = "mkdir" =>
        LET name == Base(ScriptPath)
            dots == {i \in 1..Len(name) : name[i] = "."}
            last == CHOOSE i \in dots : \A j \in dots : j <= i
        IN  Base(binary.path) = IF dots = {} THEN name ELSE SubSeq(name, 1, last - 1)

\* C36: under the configuration of the run, no other script path has the
\* binary path of this run's script
C36_BinaryPathInjective ==
    pc = "mkdir" =>
        \A name \in PathScripts :
            LET other == Abs(name, StartDir(cmdline)) IN
            other # ScriptPath => BinaryPath(other, config) # binary.path

\* C33: the listener kills only a child that has been started: its
\* cmd.Process.Kill() never runs before the first StartBinary has returned
\* and cmd refers to the child
C33_KillOnlyStartedChild ==
    [][(lpc = "kill" /\ lpc' # "kill") => child.cmd > 0]_vars

\* C34: the writes of a rebuild to the script start no restart cycle of their
\* own: there are never more hot-reload rebuilds than matching changes made
\* by the user
C34_OwnWritesStartNoCycle ==
    hist.rebuilds <= hist.matching

\* C35: no edit is lost: whenever the supervisor has come to rest (the loop
\* waits for the child, restart is clear, no event is left to handle), every
\* matching change made so far has been followed by a build that started
\* after it
C35_NoEditLost ==
    Idle => ~hist.unbuilt


\* The steps of goscript after its call of comment(scriptPath, true)
GsBuildPcs == {"gs_toolchain", "gs_compile", "gs_uncomment", "gs_link", "gs_run"}

\* C37: in goscript, when the binary exists and the script's modification time
\* is not after the binary's, the cached binary is run exactly once, and the
\* invocation performs no compile step, no link step and no write to the script.
C37_FreshBinaryRunOnce ==
    (seen.checked /\ seen.exists /\ seen.st <= seen.bt) =>
        /\ child.id <= 1
        /\ pc = "done" => child.id = 1
        /\ pc \notin GsBuildPcs
        /\ ~cb.commented
        /\ script = orig

\* C38: in goscript, a build of a script whose first line is not the
\* interpreter hashbang leaves the file byte-identical to its original content
\* once the build has put the first two bytes back.
C38_PlainScriptUntouched ==
    (FirstLine(orig) # GsHashbang /\ cb.restores > 0) => script = orig

====
